---- MODULE Spec2Model ----
(***************************************************************************)
(* VibeGo auto-responder: the call escalation and media-streaming          *)
(* subsystem.  CallManager (call state, webhook endpoint, media socket),   *)
(* webhook security, SessionTracker, CallService, ConversationService and  *)
(* the escalation branch of processEvent, as one state machine.  One call  *)
(* is originated per task; a task is an escalated hook event               *)
(* (processEvent -> CallService.handleCall), a conversation call           *)
(* (/conversation-call) or a test call (/test-call).  Every await of the   *)
(* code is a point where other handlers may run, so each action below is   *)
(* the code between two awaits.                                            *)
(***************************************************************************)
EXTENDS Integers, Sequences, FiniteSets, TLC

\* Number of calls (tasks) a behaviour originates.
MaxCalls == 2

Calls == 1..MaxCalls

\* validateTelnyxSignature's replay window, in seconds (5 * 60 * 1000 ms).
FiveMinutes == 300

\* The local clock (seconds) at which webhook requests are examined.
Now == 1000

VARIABLES
  freeTier,               \* config.publicUrl's hostname ends with .ngrok-free.dev
  keyConfigured,          \* config.providerConfig.telnyxPublicKey is set
  currentCallId,          \* CallManager.currentCallId
  activeCalls,            \* CallManager.activeCalls: the call ids in the map
  callState,              \* the CallState object of each call id
  callControlIdToCallId,  \* CallManager.callControlIdToCallId
  wsTokenToCallId,        \* CallManager.wsTokenToCallId
  prov,                   \* phone provider: status of the call it holds per origination
  streamUrl,              \* phone provider: media URL last given to startStreaming
  pc,                     \* position of each task in its code
  callOf,                 \* the call id initiateCall allocated for the task (0: none)
  kind,                   \* what started the task
  target,                 \* the terminal target (event.tmux) of the task
  outcome,                \* how CallManager.initiateCall / continueCall / endCall ended
  hookResp,               \* processEvent's ServiceResponse for an escalated event
  delivered,              \* text was typed into the task's terminal target
  callToSession,          \* SessionTracker.callToSession
  sessionToCall,          \* SessionTracker.sessionToCall
  conv,                   \* ConversationService.activeConversations
  httpLog,                \* last request to /twiml and the status code answered
  wsLog,                  \* last upgrade on /media-stream and how it was answered
  ngrok,                  \* ngrok.ts: its module variables, the monitor and the reconnect
  servers,                \* the listening servers, the call manager, shutdown's endCalls
  probe                   \* one application of a function of the code: its inputs and result

cmVars == <<currentCallId, activeCalls, callState, callControlIdToCallId, wsTokenToCallId>>
envVars == <<prov, streamUrl>>
taskVars == <<pc, callOf, kind, target, outcome, hookResp, delivered>>
trackerVars == <<callToSession, sessionToCall>>
cfgVars == <<freeTier, keyConfigured>>
logVars == <<httpLog, wsLog, probe>>
netVars == <<ngrok, servers>>
vars == <<cfgVars, netVars, cmVars, envVars, taskVars, trackerVars, conv, logVars>>

(***************************************************************************)
(* Terminal targets and the SessionTracker                                 *)
(***************************************************************************)
Targets ==
  { [session |-> "main", window |-> "0", pane |-> "%1"],
    [session |-> "main", window |-> "1", pane |-> "%2"] }

getSessionKey(context) ==
  context.session \o ":" \o context.window \o ":" \o context.pane

hasActiveCall(context) == getSessionKey(context) \in DOMAIN sessionToCall

(***************************************************************************)
(* Maps (JavaScript Map): set and delete                                   *)
(***************************************************************************)
MapSet(m, k, v) == [x \in (DOMAIN m) \cup {k} |-> IF x = k THEN v ELSE m[x]]

MapDelete(m, k) == [x \in (DOMAIN m) \ {k} |-> m[x]]

EmptyMap == [x \in {} |-> 0]

(***************************************************************************)
(* Webhook security: per-call media-socket tokens                          *)
(***************************************************************************)
\* generateWebSocketToken: 32 random bytes, so one distinct string per call;
\* the token generated for the n-th call is the two characters <<n, 9>>.
generateWebSocketToken(n) == <<n, 9>>

RECURSIVE BitXor(_, _)
BitXor(a, b) ==
  IF a = 0 /\ b = 0 THEN 0
  ELSE (((a % 2) + (b % 2)) % 2) + 2 * BitXor(a \div 2, b \div 2)

RECURSIVE BitOr(_, _)
BitOr(a, b) ==
  IF a = 0 /\ b = 0 THEN 0
  ELSE (IF (a % 2) = 1 \/ (b % 2) = 1 THEN 1 ELSE 0) + 2 * BitOr(a \div 2, b \div 2)

\* A loop that leaves at the first differing character.
RECURSIVE TokenLoopEarlyReturn(_, _, _, _, _)
TokenLoopEarlyReturn(expectedToken, receivedToken, i, result, steps) ==
  IF i > Len(expectedToken) THEN [result |-> result, steps |-> steps]
  ELSE IF expectedToken[i] # receivedToken[i] THEN [result |-> 1, steps |-> steps + 1]
  ELSE TokenLoopEarlyReturn(expectedToken, receivedToken, i + 1, result, steps + 1)

\* A loop that assigns instead of accumulating: result = expected[i] ^ received[i].
RECURSIVE TokenLoopAssign(_, _, _, _, _)
TokenLoopAssign(expectedToken, receivedToken, i, result, steps) ==
  IF i > Len(expectedToken) THEN [result |-> result, steps |-> steps]
  ELSE TokenLoopAssign(expectedToken, receivedToken, i + 1,
                       BitXor(expectedToken[i], receivedToken[i]), steps + 1)

\* The loop of validateWebSocketToken: result |= expected[i] ^ received[i],
\* from character i to the end; steps counts the passes through the body.
RECURSIVE TokenLoop(_, _, _, _, _)
TokenLoop(expectedToken, receivedToken, i, result, steps) ==
  IF i > Len(expectedToken) THEN [result |-> result, steps |-> steps]
  ELSE TokenLoop(expectedToken, receivedToken, i + 1,
                 BitOr(result, BitXor(expectedToken[i], receivedToken[i])), steps + 1)

\* validateWebSocketToken with the number of passes through the loop body.
validateWebSocketTokenRun(expectedToken, receivedToken) ==
  IF receivedToken = <<>> THEN [valid |-> FALSE, steps |-> 0]
  ELSE IF Len(expectedToken) # Len(receivedToken) THEN [valid |-> FALSE, steps |-> 0]
  ELSE LET loop == TokenLoop(expectedToken, receivedToken, 1, 0, 0)
       IN [valid |-> loop.result = 0, steps |-> loop.steps]

validateWebSocketToken(expectedToken, receivedToken) ==
  validateWebSocketTokenRun(expectedToken, receivedToken).valid

(***************************************************************************)
(* CallManager state                                                       *)
(***************************************************************************)
\* The CallState built by initiateCall for call id n.  callControlId 0 is
\* null; the provider's handle of the call originated for call id n is n.
\* greeted: media frames of the greeting were written to the socket.
NewCallState(n) ==
  [ callControlId  |-> 0,
    ws             |-> "null",
    streamSid      |-> FALSE,
    streamingReady |-> FALSE,
    wsToken        |-> generateWebSocketToken(n),
    hungUp         |-> FALSE,
    sttSession     |-> "open",
    greeted        |-> FALSE ]

\* No CallState has been built for the id yet.
NoCallState ==
  [ callControlId  |-> 0,
    ws             |-> "null",
    streamSid      |-> FALSE,
    streamingReady |-> FALSE,
    wsToken        |-> <<>>,
    hungUp         |-> FALSE,
    sttSession     |-> "none",
    greeted        |-> FALSE ]

\* The provider was not asked to stream the call's media.
NoStream == [set |-> FALSE, token |-> <<>>]

\* finalize: what finalizeConversation made of the conversation.
NoOutcome == [initiate |-> "none", continue |-> "none", end |-> "none", finalize |-> "none"]

Tasks == 1..MaxCalls

\* The public URLs ngrok.forward may give: the first on a reserved domain or
\* again by chance, another on a free plan.
Urls == {"a.ngrok.app", "b.ngrok.app"}

\* ngrok.ts after startNgrok has resolved: the listener and its URL are set,
\* the counter is 0 and monitorTunnel's interval runs.  warned: the last
\* reconnect logged the URL-changed warning.
NgrokStarted ==
  [listener |-> TRUE, currentUrl |-> "a.ngrok.app", intentionallyClosed |-> FALSE,
   reconnectAttempts |-> 0, delay |-> 0, monitors |-> 1, fetching |-> FALSE,
   reconnect |-> "none", stop |-> "none", warned |-> FALSE]

\* CallService.start has created the CallManager and startServer listens.
ServersListening ==
  [callManager |-> TRUE, wss |-> "listening", httpServer |-> "listening",
   ending |-> [c \in Calls |-> "none"]]

\* The service after construction: no call, no conversation, empty maps.
Constructed ==
  /\ freeTier \in BOOLEAN
  /\ keyConfigured \in BOOLEAN
  /\ currentCallId = 0
  /\ activeCalls = {}
  /\ callState = [c \in Calls |-> NoCallState]
  /\ callControlIdToCallId = EmptyMap
  /\ wsTokenToCallId = EmptyMap
  /\ prov = [c \in Calls |-> "none"]
  /\ streamUrl = [c \in Calls |-> NoStream]
  /\ pc = [t \in Tasks |-> "idle"]
  /\ callOf = [t \in Tasks |-> 0]
  /\ kind = [t \in Tasks |-> "none"]
  /\ target = [t \in Tasks |-> CHOOSE x \in Targets : TRUE]
  /\ outcome = [t \in Tasks |-> NoOutcome]
  /\ hookResp = [t \in Tasks |-> "none"]
  /\ delivered = [t \in Tasks |-> FALSE]
  /\ callToSession = EmptyMap
  /\ sessionToCall = EmptyMap
  /\ conv = EmptyMap
  /\ httpLog = [kind |-> "none"]
  /\ wsLog = [kind |-> "none"]
  /\ ngrok = NgrokStarted
  /\ servers = ServersListening

NoProbe == [kind |-> "none"]

Init == Constructed /\ probe = NoProbe

(***************************************************************************)
(* CallManager.initiateCall                                                *)
(***************************************************************************)
\* A catch block that closes the speech session and forgets to delete the
\* call: the fault the release of resources on failure is tested against.
InitiateCallCatchKeepsCall(c) ==
  /\ callState' = [callState EXCEPT ![c].sttSession = "closed"]
  /\ activeCalls' = activeCalls

\* The catch block of initiateCall: state.sttSession?.close() and
\* activeCalls.delete(callId).  The token and call-control entries stay.
InitiateCallCatch(c) ==
  /\ callState' = [callState EXCEPT ![c].sttSession = "closed"]
  /\ activeCalls' = activeCalls \ {c}

\* initiateCall rejects with err; the rejection reaches the task's caller:
\* processEvent's catch answers the hook with handled=false, action='notify';
\* handleConversationCall and handleTestCall answer 500.
InitiateCallThrows(t, err) ==
  /\ pc' = [pc EXCEPT ![t] = "done"]
  /\ outcome' = [outcome EXCEPT ![t].initiate = err]
  /\ hookResp' = [hookResp EXCEPT ![t] =
                    IF kind[t] = "escalation" THEN "notify" ELSE @]

\* initiateCall up to its await of phone.initiateCall: allocate the call id,
\* open the speech session, build the CallState, put it in activeCalls and
\* send the origination request (the provider now holds a dialing call).
InitiateCallBegin(t) ==
  LET n == currentCallId + 1 IN
  /\ n \in Calls
  /\ currentCallId' = n
  /\ callOf' = [callOf EXCEPT ![t] = n]
  /\ activeCalls' = activeCalls \cup {n}
  /\ callState' = [callState EXCEPT ![n] = NewCallState(n)]
  /\ prov' = [prov EXCEPT ![n] = "dialing"]
  /\ pc' = [pc EXCEPT ![t] = "originating"]

\* phone.initiateCall resolves with the call-control id.
PhoneInitiateCallReturns(t) ==
  LET c == callOf[t] IN
  /\ pc[t] = "originating"
  /\ callState' = [callState EXCEPT ![c].callControlId = c]
  /\ callControlIdToCallId' = MapSet(callControlIdToCallId, c, c)
  /\ wsTokenToCallId' = MapSet(wsTokenToCallId, callState[c].wsToken, c)
  /\ pc' = [pc EXCEPT ![t] = "waitConn"]
  /\ UNCHANGED <<cfgVars, netVars, currentCallId, activeCalls, envVars, callOf, kind, target,
                 outcome, hookResp, delivered, trackerVars, conv, logVars>>

\* phone.initiateCall rejects.
PhoneInitiateCallFails(t) ==
  /\ pc[t] = "originating"
  /\ InitiateCallCatch(callOf[t])
  /\ InitiateCallThrows(t, "error")
  /\ UNCHANGED <<cfgVars, netVars, currentCallId, callControlIdToCallId, wsTokenToCallId, envVars,
                 callOf, kind, target, delivered, trackerVars, conv, logVars>>

\* A readiness test that looks at the socket only: the fault the order of
\* the call's phases is tested against.
ConnectionReadySocketOnly(c) ==
  /\ c \in activeCalls
  /\ callState[c].ws = "open"

\* The test waitForConnection polls every 100 ms.
ConnectionReady(c) ==
  /\ c \in activeCalls
  /\ callState[c].ws = "open"
  /\ (callState[c].streamSid \/ callState[c].streamingReady)

\* waitForConnection returns; initiateCall goes on to await the greeting audio.
WaitForConnectionReturns(t) ==
  /\ pc[t] = "waitConn"
  /\ ConnectionReady(callOf[t])
  /\ pc' = [pc EXCEPT ![t] = "awaitTts"]
  /\ UNCHANGED <<cfgVars, netVars, cmVars, envVars, callOf, kind, target, outcome, hookResp,
                 delivered, trackerVars, conv, logVars>>

\* waitForConnection's 15 s run out: 'WebSocket connection timeout'.
WaitForConnectionTimeout(t) ==
  /\ pc[t] = "waitConn"
  /\ InitiateCallCatch(callOf[t])
  /\ InitiateCallThrows(t, "connection timeout")
  /\ UNCHANGED <<cfgVars, netVars, currentCallId, callControlIdToCallId, wsTokenToCallId, envVars,
                 callOf, kind, target, delivered, trackerVars, conv, logVars>>

\* The greeting audio is ready: sendPreGeneratedAudio writes its frames
\* (sendMediaChunk writes only to an open socket), then listen starts.
SendPreGeneratedAudio(t) ==
  LET c == callOf[t] IN
  /\ pc[t] = "awaitTts"
  /\ callState' = [callState EXCEPT ![c].greeted = (callState[c].ws = "open")]
  /\ pc' = [pc EXCEPT ![t] = "listen"]
  /\ UNCHANGED <<cfgVars, netVars, currentCallId, activeCalls, callControlIdToCallId,
                 wsTokenToCallId, envVars, callOf, kind, target, outcome, hookResp,
                 delivered, trackerVars, conv, logVars>>

\* The greeting synthesis rejects.
GenerateTTSAudioFails(t) ==
  /\ pc[t] = "awaitTts"
  /\ InitiateCallCatch(callOf[t])
  /\ InitiateCallThrows(t, "error")
  /\ UNCHANGED <<cfgVars, netVars, currentCallId, callControlIdToCallId, wsTokenToCallId, envVars,
                 callOf, kind, target, delivered, trackerVars, conv, logVars>>

(***************************************************************************)
(* SessionTracker                                                          *)
(***************************************************************************)
registerCall(callId, tmuxContext) ==
  /\ callToSession' = MapSet(callToSession, callId,
                             [callId |-> callId, tmuxContext |-> tmuxContext])
  /\ sessionToCall' = MapSet(sessionToCall, getSessionKey(tmuxContext), callId)

removeCall(callId) ==
  IF callId \in DOMAIN callToSession
  THEN /\ sessionToCall' = MapDelete(sessionToCall,
                                     getSessionKey(callToSession[callId].tmuxContext))
       /\ callToSession' = MapDelete(callToSession, callId)
  ELSE UNCHANGED trackerVars

(***************************************************************************)
(* CallManager.listen, as awaited by initiateCall                          *)
(***************************************************************************)
\* What the caller of CallManager.initiateCall does when it resolves, up to
\* its next await.  CallService.initiateCall registers the call with the
\* SessionTracker, then handleCall -> CallService.endCall ->
\* CallManager.endCall starts speaking the goodbye.  startConversation
\* stores the ConversationState and starts runConversationLoop.
\* handleTestCall answers 200.
InitiateCallResolves(t) ==
  LET c == callOf[t] IN
  /\ outcome' = [outcome EXCEPT ![t].initiate = "ok"]
  /\ pc' = [pc EXCEPT ![t] =
              CASE kind[t] = "escalation" -> "endSpeak"
                [] kind[t] = "conversation" -> "genResp"
                [] OTHER -> "done"]
  /\ IF kind[t] = "escalation"
     THEN registerCall(c, target[t])
     ELSE UNCHANGED trackerVars
  /\ IF kind[t] = "conversation"
     THEN conv' = MapSet(conv, c, [currentPlan |-> FALSE, isActive |-> TRUE])
     ELSE UNCHANGED conv
  /\ UNCHANGED <<cmVars, hookResp>>

\* A listen that returns the transcript without testing state.hungUp: the
\* fault the failure on hangup is tested against.
ListenTranscriptUnchecked(t) ==
  /\ pc[t] = "listen"
  /\ InitiateCallResolves(t)
  /\ UNCHANGED <<cfgVars, netVars, envVars, callOf, kind, target, delivered, logVars>>

\* The transcript future resolves first; listen then tests state.hungUp.
ListenTranscript(t) ==
  LET c == callOf[t] IN
  /\ pc[t] = "listen"
  /\ IF callState[c].hungUp
     THEN /\ InitiateCallCatch(c)
          /\ InitiateCallThrows(t, "hungup")
          /\ UNCHANGED <<currentCallId, callControlIdToCallId, wsTokenToCallId,
                         trackerVars, conv>>
     ELSE InitiateCallResolves(t)
  /\ UNCHANGED <<cfgVars, netVars, envVars, callOf, kind, target, delivered, logVars>>

\* The hangup poll of waitForHangup sees state.hungUp and rejects first.
ListenHangup(t) ==
  LET c == callOf[t] IN
  /\ pc[t] = "listen"
  /\ callState[c].hungUp
  /\ InitiateCallCatch(c)
  /\ InitiateCallThrows(t, "hungup")
  /\ UNCHANGED <<cfgVars, netVars, currentCallId, callControlIdToCallId, wsTokenToCallId, envVars,
                 callOf, kind, target, delivered, trackerVars, conv, logVars>>

\* waitForTranscript rejects: no transcript within transcriptTimeoutMs.
ListenTimeout(t) ==
  /\ pc[t] = "listen"
  /\ InitiateCallCatch(callOf[t])
  /\ InitiateCallThrows(t, "transcript timeout")
  /\ UNCHANGED <<cfgVars, netVars, currentCallId, callControlIdToCallId, wsTokenToCallId, envVars,
                 callOf, kind, target, delivered, trackerVars, conv, logVars>>

(***************************************************************************)
(* CallManager.endCall, called by CallService.endCall from handleCall      *)
(***************************************************************************)
\* endCall rejects before its teardown; CallService.endCall and handleCall
\* reject with it and processEvent's catch answers 'notify'.
EndCallThrows(t) ==
  /\ pc' = [pc EXCEPT ![t] = "done"]
  /\ outcome' = [outcome EXCEPT ![t].end = "error"]
  /\ hookResp' = [hookResp EXCEPT ![t] = "notify"]

\* speak(goodbye) and the 2 s wait are over; the provider hangup is requested.
EndCallSpoke(t) ==
  /\ pc[t] = "endSpeak"
  /\ pc' = [pc EXCEPT ![t] = "endHangup"]
  /\ UNCHANGED <<cfgVars, netVars, cmVars, envVars, callOf, kind, target, outcome, hookResp,
                 delivered, trackerVars, conv, logVars>>

\* The goodbye synthesis rejects inside speak.
EndCallSpeakFails(t) ==
  /\ pc[t] = "endSpeak"
  /\ EndCallThrows(t)
  /\ UNCHANGED <<cfgVars, netVars, cmVars, envVars, callOf, kind, target, delivered,
                 trackerVars, conv, logVars>>

\* The teardown of endCall: close the speech session and the socket, mark
\* hung up, delete the token and call-control entries, delete the call.
EndCallTeardown(c) ==
  /\ callState' = [callState EXCEPT
                     ![c].sttSession = "closed",
                     ![c].ws = IF @ = "null" THEN "null" ELSE "closed",
                     ![c].hungUp = TRUE]
  /\ wsTokenToCallId' = MapDelete(wsTokenToCallId, callState[c].wsToken)
  /\ callControlIdToCallId' =
       IF callState[c].callControlId # 0
       THEN MapDelete(callControlIdToCallId, callState[c].callControlId)
       ELSE callControlIdToCallId
  /\ activeCalls' = activeCalls \ {c}

\* phone.hangup resolves; endCall tears the call down and returns;
\* CallService.endCall goes on to route the response to the terminal.
EndCallHangupReturns(t) ==
  LET c == callOf[t] IN
  /\ pc[t] = "endHangup"
  /\ EndCallTeardown(c)
  /\ prov' = [prov EXCEPT ![c] = "hungup"]
  /\ outcome' = [outcome EXCEPT ![t].end = "ok"]
  /\ pc' = [pc EXCEPT ![t] = "route"]
  /\ UNCHANGED <<cfgVars, netVars, currentCallId, streamUrl, callOf, kind, target, hookResp,
                 delivered, trackerVars, conv, logVars>>

\* phone.hangup rejects.
EndCallHangupFails(t) ==
  /\ pc[t] = "endHangup"
  /\ EndCallThrows(t)
  /\ UNCHANGED <<cfgVars, netVars, cmVars, envVars, callOf, kind, target, delivered,
                 trackerVars, conv, logVars>>

\* CallService.endCall after CallManager.endCall: tmuxResponder.sendResponse
\* has typed the response (sent) or has thrown, which is caught and logged;
\* then sessionTracker.removeCall; handleCall returns and processEvent
\* answers handled=true, action='escalate_call'.
RouteResponse(t, sent) ==
  /\ pc[t] = "route"
  /\ delivered' = [delivered EXCEPT ![t] = sent]
  /\ removeCall(callOf[t])
  /\ hookResp' = [hookResp EXCEPT ![t] = "escalate_call"]
  /\ pc' = [pc EXCEPT ![t] = "done"]
  /\ UNCHANGED <<cfgVars, netVars, cmVars, envVars, callOf, kind, target, outcome, conv, logVars>>

(***************************************************************************)
(* ConversationService.runConversationLoop                                 *)
(***************************************************************************)
\* The loop's catch for an error that is no hangup, and the statement after
\* the loop: state.isActive = false; break; activeConversations.delete.
ConversationLoopEnds(t) ==
  /\ conv' = MapDelete(conv, callOf[t])
  /\ pc' = [pc EXCEPT ![t] = "done"]

\* The loop's catch for 'hung up' / 'No active call': state.isActive = false
\* and finalizeConversation is awaited.
ConversationHangup(t) ==
  /\ conv' = [conv EXCEPT ![callOf[t]].isActive = FALSE]
  /\ pc' = [pc EXCEPT ![t] = "finalize"]

\* generateResponse resolves; updatePlan keeps or sets currentPlan;
\* continueCall looks the call up and starts speaking the reply.
GenerateResponse(t, planDetected) ==
  LET c == callOf[t] IN
  /\ pc[t] = "genResp"
  /\ IF c \in activeCalls
     THEN /\ conv' = [conv EXCEPT ![c].currentPlan = @ \/ planDetected]
          /\ pc' = [pc EXCEPT ![t] = "contSpeak"]
     ELSE /\ conv' = [conv EXCEPT ![c].currentPlan = @ \/ planDetected,
                                  ![c].isActive = FALSE]
          /\ pc' = [pc EXCEPT ![t] = "finalize"]
  /\ UNCHANGED <<cfgVars, netVars, cmVars, envVars, callOf, kind, target, outcome, hookResp,
                 delivered, trackerVars, logVars>>

\* generateResponse rejects (LLM error).
GenerateResponseFails(t) ==
  /\ pc[t] = "genResp"
  /\ ConversationLoopEnds(t)
  /\ UNCHANGED <<cfgVars, netVars, cmVars, envVars, callOf, kind, target, outcome, hookResp,
                 delivered, trackerVars, logVars>>

\* continueCall: speak has finished, listen starts.
ContinueCallSpoke(t) ==
  /\ pc[t] = "contSpeak"
  /\ pc' = [pc EXCEPT ![t] = "contListen"]
  /\ UNCHANGED <<cfgVars, netVars, cmVars, envVars, callOf, kind, target, outcome, hookResp,
                 delivered, trackerVars, conv, logVars>>

\* continueCall: the synthesis rejects inside speak.  continueCall has no
\* catch: the error reaches runConversationLoop.
ContinueCallSpeakFails(t) ==
  /\ pc[t] = "contSpeak"
  /\ outcome' = [outcome EXCEPT ![t].continue = "error"]
  /\ ConversationLoopEnds(t)
  /\ UNCHANGED <<cfgVars, netVars, cmVars, envVars, callOf, kind, target, hookResp,
                 delivered, trackerVars, logVars>>

\* continueCall's listen: the transcript future resolves first.
ContinueCallTranscript(t) ==
  LET c == callOf[t] IN
  /\ pc[t] = "contListen"
  /\ IF callState[c].hungUp
     THEN /\ outcome' = [outcome EXCEPT ![t].continue = "hungup"]
          /\ ConversationHangup(t)
     ELSE /\ outcome' = [outcome EXCEPT ![t].continue = "ok"]
          /\ pc' = [pc EXCEPT ![t] = "genResp"]
          /\ UNCHANGED conv
  /\ UNCHANGED <<cfgVars, netVars, cmVars, envVars, callOf, kind, target, hookResp,
                 delivered, trackerVars, logVars>>

\* continueCall's listen: the hangup poll rejects first.
ContinueCallHangup(t) ==
  /\ pc[t] = "contListen"
  /\ callState[callOf[t]].hungUp
  /\ outcome' = [outcome EXCEPT ![t].continue = "hungup"]
  /\ ConversationHangup(t)
  /\ UNCHANGED <<cfgVars, netVars, cmVars, envVars, callOf, kind, target, hookResp,
                 delivered, trackerVars, logVars>>

\* continueCall's listen: no transcript within transcriptTimeoutMs.
ContinueCallTimeout(t) ==
  /\ pc[t] = "contListen"
  /\ outcome' = [outcome EXCEPT ![t].continue = "transcript timeout"]
  /\ ConversationLoopEnds(t)
  /\ UNCHANGED <<cfgVars, netVars, cmVars, envVars, callOf, kind, target, hookResp,
                 delivered, trackerVars, logVars>>

\* finalizeConversation: extractFinalPlan returns currentPlan or asks the
\* model; sendToTmux types a non-empty plan (sent) or fails, which is caught
\* and logged; the loop breaks and the conversation is deleted.
FinalizeConversation(t, sent) ==
  /\ pc[t] = "finalize"
  /\ delivered' = [delivered EXCEPT ![t] = sent]
  /\ outcome' = [outcome EXCEPT ![t].finalize =
                   IF conv[callOf[t]].currentPlan THEN "plan" ELSE "extracted"]
  /\ ConversationLoopEnds(t)
  /\ UNCHANGED <<cfgVars, netVars, cmVars, envVars, callOf, kind, target, hookResp,
                 trackerVars, logVars>>

\* extractFinalPlan's model request rejects (no plan was detected in the
\* dialogue): the rejection leaves runConversationLoop from inside its catch
\* and the conversation stays in activeConversations.
FinalizeConversationFails(t) ==
  /\ pc[t] = "finalize"
  /\ ~conv[callOf[t]].currentPlan
  /\ pc' = [pc EXCEPT ![t] = "done"]
  /\ outcome' = [outcome EXCEPT ![t].finalize = "failed"]
  /\ UNCHANGED <<cfgVars, netVars, cmVars, envVars, callOf, kind, target, hookResp,
                 delivered, trackerVars, conv, logVars>>

(***************************************************************************)
(* Webhook security: validateTelnyxSignature                               *)
(***************************************************************************)
Abs(x) == IF x < 0 THEN -x ELSE x

\* A signature header is present or not; a present one is either a
\* signature the provider's key made over the payload timestamp|body
\* (genuine, with that payload) or bytes the key never made.  crypto.verify
\* accepts exactly a genuine signature over the very payload it is given.
verify(signedTimestamp, signedBody, signature) ==
  /\ signature.genuine
  /\ signature.timestamp = signedTimestamp
  /\ signature.body = signedBody

\* A validation without the replay window: the fault the rejection of
\* requests is tested against.
validateTelnyxSignatureNoWindow(signature, timestamp, body) ==
  IF ~signature.present \/ ~timestamp.present THEN FALSE
  ELSE verify(timestamp, body, signature)

\* A validation whose window is one-sided: now - timestampMs > fiveMinutes,
\* without Math.abs.
validateTelnyxSignatureOldOnly(signature, timestamp, body) ==
  IF ~signature.present \/ ~timestamp.present THEN FALSE
  ELSE IF timestamp.numeric /\ Now - timestamp.value > FiveMinutes THEN FALSE
  ELSE verify(timestamp, body, signature)

\* A timestamp header is present or not; parseInt of a present one is its
\* value, or NaN when it is not numeric, and every comparison with NaN is
\* false.
validateTelnyxSignature(signature, timestamp, body) ==
  IF ~signature.present \/ ~timestamp.present THEN FALSE
  ELSE IF timestamp.numeric /\ Abs(Now - timestamp.value) > FiveMinutes THEN FALSE
  ELSE verify(timestamp, body, signature)

(***************************************************************************)
(* CallManager.handleTelnyxWebhook                                         *)
(***************************************************************************)
EventTypes == {"call.initiated", "call.answered", "call.hangup", "streaming.started"}

\* The switch of handleTelnyxWebhook on data.event_type for a payload with
\* call_control_id ccid (0: none).  startOk: phone.startStreaming resolves.
handleTelnyxWebhook(eventType, ccid, startOk) ==
  LET known  == ccid \in DOMAIN callControlIdToCallId
      callId == IF known THEN callControlIdToCallId[ccid] ELSE 0
      live   == known /\ callId \in activeCalls
  IN
  CASE ccid # 0 /\ eventType = "call.answered" ->
         /\ streamUrl' =
              IF startOk
              THEN [streamUrl EXCEPT ![ccid] =
                      [set |-> TRUE,
                       token |-> IF live THEN callState[callId].wsToken ELSE <<>>]]
              ELSE streamUrl
         /\ UNCHANGED <<callState, callControlIdToCallId>>
    [] ccid # 0 /\ eventType = "call.hangup" ->
         /\ callControlIdToCallId' =
              IF known THEN MapDelete(callControlIdToCallId, ccid)
              ELSE callControlIdToCallId
         /\ callState' =
              IF live
              THEN [callState EXCEPT
                      ![callId].hungUp = TRUE,
                      ![callId].ws = IF @ = "null" THEN "null" ELSE "closed"]
              ELSE callState
         /\ UNCHANGED streamUrl
    [] ccid # 0 /\ eventType = "streaming.started" ->
         /\ callState' =
              IF live THEN [callState EXCEPT ![callId].streamingReady = TRUE]
              ELSE callState
         /\ UNCHANGED <<callControlIdToCallId, streamUrl>>
    [] OTHER -> UNCHANGED <<callState, callControlIdToCallId, streamUrl>>

(***************************************************************************)
(* CallManager.handlePhoneWebhook: POST /twiml                             *)
(***************************************************************************)
\* The status code handlePhoneWebhook answers a request with.
WebhookStatus(req) ==
  IF req.contentType # "application/json" THEN 400
  ELSE IF keyConfigured
          /\ ~validateTelnyxSignature(req.signature, req.timestamp, req.body)
       THEN 401
  ELSE IF ~req.body.json THEN 400
  ELSE 200

\* What httpLog keeps of a request: its content type, which of its two
\* headers are present, whether the timestamp is a time within five minutes
\* of the clock, whether the signature is the provider's over this
\* timestamp and body, and whether the body parses.
LogOf(req, status) ==
  [ kind        |-> "webhook",
    contentType |-> req.contentType,
    sigPresent  |-> req.signature.present,
    tsPresent   |-> req.timestamp.present,
    tsInWindow  |-> /\ req.timestamp.numeric
                    /\ Now - FiveMinutes <= req.timestamp.value
                    /\ req.timestamp.value <= Now + FiveMinutes,
    sigVerifies |-> verify(req.timestamp, req.body, req.signature),
    bodyJson    |-> req.body.json,
    status      |-> status ]

handlePhoneWebhook(req, startOk) ==
  /\ IF WebhookStatus(req) = 200
     THEN handleTelnyxWebhook(req.body.eventType, req.body.callControlId, startOk)
     ELSE UNCHANGED <<callState, callControlIdToCallId, streamUrl>>
  /\ UNCHANGED <<currentCallId, activeCalls, wsTokenToCallId>>

(***************************************************************************)
(* Requests to POST /twiml                                                 *)
(***************************************************************************)
TsMissing == [present |-> FALSE, numeric |-> FALSE, value |-> 0]

TsNaN == [present |-> TRUE, numeric |-> FALSE, value |-> 0]

TsAt(v) == [present |-> TRUE, numeric |-> TRUE, value |-> v]

Timestamps ==
  {TsMissing, TsNaN} \cup
  {TsAt(v) : v \in {Now - FiveMinutes - 1, Now, Now + FiveMinutes, Now + FiveMinutes + 1}}

NotJson == [json |-> FALSE, eventType |-> "", callControlId |-> 0]

Event(eventType, ccid) == [json |-> TRUE, eventType |-> eventType, callControlId |-> ccid]

Bodies ==
  {NotJson, Event("call.answered", 0)} \cup
  {Event(e, c) : e \in EventTypes, c \in Calls}

\* The bodies of the requests a client other than the provider sends.
ForgedBodies == {NotJson, Event("call.hangup", 1)}

\* Another body than the one given: one byte of it changed.
Tampered(body) ==
  IF body.json THEN [body EXCEPT !.eventType = IF @ = "call.hangup" THEN "call.answered"
                                                ELSE "call.hangup"]
  ELSE Event("call.hangup", 1)

SigKinds == {"missing", "genuine", "garbage", "otherBody"}

\* The signature header of a request with the given timestamp and body:
\* none; the provider's signature over this very request; bytes no key
\* made; the provider's signature over the same timestamp and another body.
SignatureHeader(sigKind, timestamp, body) ==
  [ present   |-> sigKind # "missing",
    genuine   |-> sigKind \in {"genuine", "otherBody"},
    timestamp |-> timestamp,
    body      |-> IF sigKind = "otherBody" THEN Tampered(body) ELSE body ]

Request(contentType, sigKind, timestamp, body) ==
  [ contentType |-> contentType,
    signature   |-> SignatureHeader(sigKind, timestamp, body),
    timestamp   |-> timestamp,
    body        |-> body ]

\* Only the provider's key makes a genuine signature, and the provider
\* signs numeric timestamps.
Producible(req) == req.signature.genuine => req.timestamp.numeric

AllRequests ==
  { Request(ct, k, ts, b) :
      ct \in {"application/json", "text/plain"}, k \in SigKinds,
      ts \in Timestamps, b \in Bodies }

\* The request the provider itself sends now for an event of its call c.
ProviderRequest(eventType, c) ==
  Request("application/json", "genuine", TsAt(Now), Event(eventType, c))

\* The requests that arrive: the provider's own, for any event of any call,
\* and any headers around a forged body.
Requests ==
  { ProviderRequest(e, c) : e \in EventTypes, c \in Calls } \cup
  { req \in AllRequests : req.body \in ForgedBodies /\ Producible(req) }

\* A request is the provider's own when it is one the provider sends now.
FromProvider(req) ==
  /\ req.body.json
  /\ req.body.callControlId # 0
  /\ req = ProviderRequest(req.body.eventType, req.body.callControlId)

\* The provider sends an event only in the matching state of its call.
ProviderCanSend(eventType, c) ==
  CASE eventType = "call.initiated" -> prov[c] = "dialing"
    [] eventType = "call.answered" -> prov[c] = "dialing"
    [] eventType = "streaming.started" -> prov[c] = "answered" /\ streamUrl[c].set
    [] eventType = "call.hangup" -> prov[c] \in {"dialing", "answered"}
    [] OTHER -> FALSE

ProviderAfter(eventType, c) ==
  CASE eventType = "call.answered" -> [prov EXCEPT ![c] = "answered"]
    [] eventType = "call.hangup" -> [prov EXCEPT ![c] = "hungup"]
    [] OTHER -> prov

\* A request arrives at /twiml and is handled.
PhoneWebhook(req, startOk) ==
  /\ FromProvider(req) => ProviderCanSend(req.body.eventType, req.body.callControlId)
  /\ handlePhoneWebhook(req, startOk)
  /\ prov' = IF FromProvider(req) /\ WebhookStatus(req) = 200
             THEN ProviderAfter(req.body.eventType, req.body.callControlId)
             ELSE prov
  /\ UNCHANGED <<cfgVars, netVars, taskVars, trackerVars, conv, wsLog, probe>>

\* The provider reports an event of its call c.
ProviderWebhook(eventType, c, startOk) ==
  /\ prov[c] # "none"
  /\ PhoneWebhook(ProviderRequest(eventType, c), startOk)
  /\ UNCHANGED httpLog

\* Any client posts any request; httpLog records it and the answer.
AnyWebhook(req) ==
  /\ \E startOk \in IF req.body.eventType = "call.answered" THEN BOOLEAN ELSE {TRUE} :
       PhoneWebhook(req, startOk)
  /\ httpLog' = LogOf(req, WebhookStatus(req))

(***************************************************************************)
(* The upgrade handler and the connection handler of /media-stream         *)
(***************************************************************************)
Max(S) == CHOOSE x \in S : \A y \in S : y <= x

\* An upgrade handler that takes the fallback on every host: the fault the
\* rejection of upgrades is tested against.
UpgradeCallIdAnyHost(token) ==
  LET callId == IF token # <<>> /\ token \in DOMAIN wsTokenToCallId
                THEN wsTokenToCallId[token] ELSE 0
  IN
  IF token # <<>> /\ callId # 0
  THEN IF callId \notin activeCalls
          \/ ~validateWebSocketToken(callState[callId].wsToken, token)
       THEN 0
       ELSE callId
  ELSE IF activeCalls # {} THEN Max(activeCalls) ELSE -1

\* The call id the upgrade handler accepts the socket for: 0 when it
\* answers 401, -1 for the placeholder 'pending-...' of the free-tier
\* fallback with no active call.  activeCalls is iterated in insertion
\* order, which is the order of the call ids.
UpgradeCallId(token) ==
  LET callId == IF token # <<>> /\ token \in DOMAIN wsTokenToCallId
                THEN wsTokenToCallId[token] ELSE 0
  IN
  IF token # <<>> /\ callId # 0
  THEN IF callId \notin activeCalls
          \/ ~validateWebSocketToken(callState[callId].wsToken, token)
       THEN 0
       ELSE callId
  ELSE IF freeTier
       THEN IF activeCalls # {} THEN Max(activeCalls) ELSE -1
       ELSE 0

\* An upgrade request with ?token=token (<<>>: no token) is handled; an
\* accepted socket is stored in the CallState of its call id, if any.
handleUpgrade(token) ==
  LET callId == UpgradeCallId(token) IN
  /\ callState' = IF callId \in activeCalls
                  THEN [callState EXCEPT ![callId].ws = "open"]
                  ELSE callState
  /\ UNCHANGED <<cfgVars, netVars, currentCallId, activeCalls, callControlIdToCallId,
                 wsTokenToCallId, envVars, taskVars, trackerVars, conv, httpLog, probe>>

\* The status line the upgrade is answered with.
UpgradeStatus(token) == IF UpgradeCallId(token) = 0 THEN 401 ELSE 101

\* The provider opens the media socket of its call c at the URL it was given.
ProviderConnects(c) ==
  /\ prov[c] = "answered"
  /\ streamUrl[c].set
  /\ handleUpgrade(streamUrl[c].token)
  /\ UNCHANGED wsLog

Tokens ==
  {<<>>, <<9, 9>>, <<1>>} \cup {generateWebSocketToken(c) : c \in Calls}

\* Any client asks for an upgrade with any token.
\* wsLog records it, the answer and the call id the socket was accepted for.
AnyUpgrade(token) ==
  /\ handleUpgrade(token)
  /\ wsLog' = [kind |-> "upgrade", token |-> token, status |-> UpgradeStatus(token),
               callId |-> UpgradeCallId(token)]

\* The socket's message handler, for a socket accepted for call id c.
MediaMessage(c, event) ==
  /\ callState[c].ws = "open"
  /\ callState' =
       IF c \notin activeCalls THEN callState
       ELSE IF event = "start" THEN [callState EXCEPT ![c].streamSid = TRUE]
       ELSE IF event = "stop" THEN [callState EXCEPT ![c].hungUp = TRUE]
       ELSE callState
  /\ UNCHANGED <<cfgVars, netVars, currentCallId, activeCalls, callControlIdToCallId,
                 wsTokenToCallId, envVars, taskVars, trackerVars, conv, logVars>>

\* The peer closes the socket once the call is over, at the provider or in
\* the manager: ws.readyState is no longer OPEN.
SocketClosed(c) ==
  /\ callState[c].ws = "open"
  /\ prov[c] = "hungup" \/ c \notin activeCalls
  /\ callState' = [callState EXCEPT ![c].ws = "closed"]
  /\ UNCHANGED <<cfgVars, netVars, currentCallId, activeCalls, callControlIdToCallId,
                 wsTokenToCallId, envVars, taskVars, trackerVars, conv, logVars>>

(***************************************************************************)
(* What starts a call                                                      *)
(***************************************************************************)
\* Tasks start in the order of their numbers.
StartTask(t, k, tg) ==
  /\ pc[t] = "idle"
  /\ \A u \in Tasks : u < t => pc[u] # "idle"
  /\ kind' = [kind EXCEPT ![t] = k]
  /\ target' = [target EXCEPT ![t] = tg]

\* POST /test-call: handleTestCall awaits initiateCall.
handleTestCall(t) ==
  /\ StartTask(t, "test", target[t])
  /\ InitiateCallBegin(t)
  /\ UNCHANGED <<cfgVars, netVars, callControlIdToCallId, wsTokenToCallId, streamUrl, outcome,
                 hookResp, delivered, trackerVars, conv, logVars>>

\* POST /conversation-call -> CallService.startConversationCall ->
\* ConversationService.startConversation awaits initiateCall.
startConversationCall(t) ==
  /\ StartTask(t, "conversation", target[t])
  /\ InitiateCallBegin(t)
  /\ UNCHANGED <<cfgVars, netVars, callControlIdToCallId, wsTokenToCallId, streamUrl, outcome,
                 hookResp, delivered, trackerVars, conv, logVars>>

\* processEvent for an event of terminal target tg that the evaluator
\* decides to escalate: handleCall -> CallService.initiateCall, which
\* throws when the target has an active call and otherwise awaits
\* CallManager.initiateCall.
processEvent(t, tg) ==
  /\ StartTask(t, "escalation", tg)
  /\ IF hasActiveCall(tg)
     THEN /\ pc' = [pc EXCEPT ![t] = "done"]
          /\ outcome' = [outcome EXCEPT ![t].initiate = "busy"]
          /\ hookResp' = [hookResp EXCEPT ![t] = "notify"]
          /\ UNCHANGED <<currentCallId, activeCalls, callState, prov, callOf>>
     ELSE /\ InitiateCallBegin(t)
          /\ UNCHANGED <<outcome, hookResp>>
  /\ UNCHANGED <<cfgVars, netVars, callControlIdToCallId, wsTokenToCallId, streamUrl,
                 delivered, trackerVars, conv, logVars>>

(***************************************************************************)
(* The service: calls of all three kinds, the provider as only peer        *)
(***************************************************************************)
InitiateCallStep(t) ==
  \/ PhoneInitiateCallReturns(t)
  \/ PhoneInitiateCallFails(t)
  \/ WaitForConnectionReturns(t)
  \/ WaitForConnectionTimeout(t)
  \/ SendPreGeneratedAudio(t)
  \/ GenerateTTSAudioFails(t)
  \/ ListenTranscript(t)
  \/ ListenHangup(t)
  \/ ListenTimeout(t)

EndCallStep(t) ==
  \/ EndCallSpoke(t)
  \/ EndCallSpeakFails(t)
  \/ EndCallHangupReturns(t)
  \/ EndCallHangupFails(t)
  \/ \E sent \in BOOLEAN : RouteResponse(t, sent)

ConversationStep(t) ==
  \/ \E planDetected \in BOOLEAN : GenerateResponse(t, planDetected)
  \/ GenerateResponseFails(t)
  \/ ContinueCallSpoke(t)
  \/ ContinueCallSpeakFails(t)
  \/ ContinueCallTranscript(t)
  \/ ContinueCallHangup(t)
  \/ ContinueCallTimeout(t)
  \/ \E sent \in BOOLEAN : FinalizeConversation(t, sent)
  \/ FinalizeConversationFails(t)

MediaStep(c) ==
  \/ \E event \in {"start", "stop", "media"} : MediaMessage(c, event)
  \/ SocketClosed(c)

\* A deployment on a reserved domain with the provider's key configured.
InitService == Init /\ keyConfigured /\ ~freeTier

\* Escalated hook events, the provider as only peer.
Next ==
  \/ \E t \in Tasks, tg \in Targets : processEvent(t, tg)
  \/ \E t \in Tasks : InitiateCallStep(t)
  \/ \E t \in Tasks : EndCallStep(t)
  \/ \E c \in Calls, e \in EventTypes, startOk \in BOOLEAN : ProviderWebhook(e, c, startOk)
  \/ \E c \in Calls : ProviderConnects(c)
  \/ \E c \in Calls : MediaStep(c)

Spec == InitService /\ [][Next]_vars

\* Conversation calls, the provider as only peer.
NextConv ==
  \/ \E t \in Tasks : startConversationCall(t)
  \/ \E t \in Tasks : InitiateCallStep(t)
  \/ \E t \in Tasks : ConversationStep(t)
  \/ \E c \in Calls, e \in EventTypes, startOk \in BOOLEAN : ProviderWebhook(e, c, startOk)
  \/ \E c \in Calls : ProviderConnects(c)
  \/ \E c \in Calls : MediaStep(c)

SpecConv == InitService /\ [][NextConv]_vars

\* One /test-call after the other has been answered.
TestCallAfterTestCall(t) ==
  /\ \A u \in Tasks : u < t => pc[u] = "done"
  /\ handleTestCall(t)

\* Test calls whose media socket is never opened, and any request to /twiml.
NextWebhook ==
  \/ \E t \in Tasks : TestCallAfterTestCall(t)
  \/ \E t \in Tasks : PhoneInitiateCallReturns(t)
  \/ \E t \in Tasks : PhoneInitiateCallFails(t)
  \/ \E t \in Tasks : WaitForConnectionTimeout(t)
  \/ \E req \in Requests : AnyWebhook(req)

SpecWebhook == InitService /\ [][NextWebhook]_vars

\* Test calls, and any upgrade on /media-stream by any client.
NextUpgrade ==
  \/ \E t \in Tasks : TestCallAfterTestCall(t)
  \/ \E t \in Tasks : InitiateCallStep(t)
  \/ \E token \in Tokens : AnyUpgrade(token)
  \/ \E c \in Calls : MediaStep(c)

\* A deployment on any domain, reserved or free-tier.
InitUpgrade == Init /\ keyConfigured

SpecUpgrade == InitUpgrade /\ [][NextUpgrade]_vars

(***************************************************************************)
(* Properties                                                              *)
(***************************************************************************)
SessionKeyOf(c) == getSessionKey(callToSession[c].tmuxContext)

\* C1: each terminal target has at most one registered call, and the two
\* maps of the SessionTracker agree: sessionToCall[key] = c exactly when
\* callToSession holds c with a tmuxContext of that key.
SessionTrackerConsistent ==
  /\ \A c1, c2 \in DOMAIN callToSession : SessionKeyOf(c1) = SessionKeyOf(c2) => c1 = c2
  /\ \A k \in DOMAIN sessionToCall :
       /\ sessionToCall[k] \in DOMAIN callToSession
       /\ SessionKeyOf(sessionToCall[k]) = k
  /\ \A c \in DOMAIN callToSession :
       /\ SessionKeyOf(c) \in DOMAIN sessionToCall
       /\ sessionToCall[SessionKeyOf(c)] = c

\* A request fails authentication: a header is missing, the timestamp is
\* outside the replay window, or the signature does not verify.
AuthFails(r) == ~r.sigPresent \/ ~r.tsPresent \/ ~r.tsInWindow \/ ~r.sigVerifies

\* The step handles a request to /twiml that httpLog' describes.
WebhookHandled == httpLog' # httpLog

NoCallStateChange == UNCHANGED <<cmVars, envVars>>

\* C2: with the provider's key configured, a request with content type
\* application/json that fails authentication is answered 401, one that
\* passes it with a body that is not JSON is answered 400, a request of
\* another content type is answered 400, and none of them changes a
\* CallState, activeCalls, an index map or the provider's streams.
WebhookRejects ==
  [][ (WebhookHandled /\ keyConfigured) =>
        LET r == httpLog' IN
        /\ (r.contentType = "application/json" /\ AuthFails(r)) =>
             (r.status = 401 /\ NoCallStateChange)
        /\ (r.contentType = "application/json" /\ ~AuthFails(r) /\ ~r.bodyJson) =>
             (r.status = 400 /\ NoCallStateChange)
        /\ r.contentType # "application/json" =>
             (r.status = 400 /\ NoCallStateChange) ]_vars

\* C2 as stated: whatever its content type, a request that fails
\* authentication is answered 401 and one that passes it with a body that is
\* not JSON is answered 400, without a change of call state.
WebhookRejectsAnyContentType ==
  [][ (WebhookHandled /\ keyConfigured) =>
        LET r == httpLog' IN
        /\ AuthFails(r) => (r.status = 401 /\ NoCallStateChange)
        /\ (~AuthFails(r) /\ ~r.bodyJson) => (r.status = 400 /\ NoCallStateChange) ]_vars

\* A replayed hangup of call 1, signed by the provider more than five
\* minutes ago, was answered 401 while call 1 is active and not hung up.
WebhookRejectsWitness ==
  /\ keyConfigured
  /\ httpLog.kind = "webhook"
  /\ httpLog.contentType = "application/json"
  /\ httpLog.sigVerifies /\ httpLog.tsPresent /\ ~httpLog.tsInWindow /\ httpLog.bodyJson
  /\ httpLog.status = 401
  /\ 1 \in activeCalls
  /\ 1 \in DOMAIN callControlIdToCallId
  /\ ~callState[1].hungUp

\* The token is missing, unknown, or not the wsToken of an active call.
BadToken(token) ==
  token = <<>> \/ ~\E c \in activeCalls : callState[c].wsToken = token

\* The step attaches a media socket to call c.
Attached(c) == callState'[c].ws = "open" /\ callState[c].ws # "open"

\* The two halves of C3 for the upgrade that wsLog' describes.
UpgradeRejects ==
  /\ (wsLog' # wsLog /\ BadToken(wsLog'.token)) =>
       /\ wsLog'.status = 401
       /\ \A c \in Calls : callState'[c].ws = callState[c].ws
  /\ \A c \in Calls :
       Attached(c) => (wsLog'.kind = "upgrade" /\ wsLog'.token = callState[c].wsToken)

\* C3: when the public URL is not on a free-tier tunnel host, an upgrade
\* whose token is missing, unknown or not the wsToken of an active call is
\* answered 401 and changes no call's ws; a socket is attached to call c
\* only by an upgrade that presented c's own token.
UpgradeRejectsOffFreeTier == [][ ~freeTier => UpgradeRejects ]_vars

\* C3 as stated: the same on every host.
UpgradeRejectsAnyHost == [][ UpgradeRejects ]_vars

\* Off the free tier, an upgrade without token was answered 401 while one
\* call waits for its socket and another holds one.
UpgradeRejectsWitness ==
  /\ ~freeTier
  /\ wsLog.kind = "upgrade" /\ wsLog.token = <<>> /\ wsLog.status = 401
  /\ \E c \in activeCalls : callState[c].ws = "null"
  /\ \E c \in activeCalls : callState[c].ws = "open"

\* The call's stream has been marked ready.
StreamReady(c) == callState[c].streamSid \/ callState[c].streamingReady

\* The call's CallState was built.
Created(c) == callState[c].sttSession # "none"

\* C4: initiateCall sends the greeting and starts to listen only once the
\* call's media socket has been opened and its stream marked ready, and a
\* call removed from activeCalls is never put back.
CallLifecycle ==
  [][ /\ \A t \in Tasks :
           (pc'[t] = "listen" /\ pc[t] # "listen") =>
             (callState[callOf[t]].ws # "null" /\ StreamReady(callOf[t]))
      /\ \A c \in Calls :
           /\ (callState'[c].greeted /\ ~callState[c].greeted) =>
                (callState[c].ws = "open" /\ StreamReady(c))
           /\ (Created(c) /\ c \notin activeCalls) => c \notin activeCalls' ]_vars

\* A call was greeted, heard, ended by endCall and is gone.
CallLifecycleWitness ==
  \E t \in Tasks :
    /\ outcome[t].initiate = "ok"
    /\ outcome[t].end = "ok"
    /\ callState[callOf[t]].greeted
    /\ callOf[t] \notin activeCalls

\* C5: when initiateCall has failed with the connection timeout, the call's
\* speech session is closed and the call is not in activeCalls.
ConnectionTimeoutReleases ==
  \A t \in Tasks :
    outcome[t].initiate = "connection timeout" =>
      /\ callOf[t] \notin activeCalls
      /\ callState[callOf[t]].sttSession = "closed"

\* initiateCall failed with the connection timeout for a call whose socket
\* was never opened.
ConnectionTimeoutWitness ==
  \E t \in Tasks :
    /\ outcome[t].initiate = "connection timeout"
    /\ pc[t] = "done"
    /\ callState[callOf[t]].ws = "null"
    /\ callState[callOf[t]].sttSession = "closed"

\* C6: initiateCall returns a response only for a call that no call.hangup
\* webhook and no 'stop' message has marked hung up, and that the provider
\* has not reported hung up.
HangupFailsInitiateCall ==
  [][ \A t \in Tasks :
        (outcome'[t].initiate = "ok" /\ outcome[t].initiate # "ok") =>
          (~callState[callOf[t]].hungUp /\ prov[callOf[t]] # "hungup") ]_vars

\* initiateCall failed for a call that was hung up while it listened.
HangupFailsWitness ==
  \E t \in Tasks :
    /\ outcome[t].initiate = "hungup"
    /\ callState[callOf[t]].hungUp
    /\ callState[callOf[t]].greeted

\* C7: when continueCall has failed with the transcript timeout, the call's
\* speech session is closed and the call is not in activeCalls.
TranscriptTimeoutReleases ==
  \A t \in Tasks :
    outcome[t].continue = "transcript timeout" =>
      /\ callOf[t] \notin activeCalls
      /\ callState[callOf[t]].sttSession = "closed"

\* C8: once the provider's call.hangup for a call has been processed, has
\* marked the call hung up, and the code that ran the call has seen the
\* hangup and finished, the call is not in activeCalls.
HangupDestroysCallState ==
  \A t \in Tasks :
    ( /\ pc[t] = "done"
      /\ callOf[t] # 0
      /\ prov[callOf[t]] = "hungup"
      /\ callState[callOf[t]].hungUp
      /\ "hungup" \in {outcome[t].initiate, outcome[t].continue} ) =>
      callOf[t] \notin activeCalls

\* C9: once endCall has been invoked on an active call and has ended, by
\* returning or by throwing, the call is not in activeCalls and its token
\* and call-control entries are gone.
EndCallRemoves ==
  \A t \in Tasks :
    outcome[t].end # "none" =>
      /\ callOf[t] \notin activeCalls
      /\ callState[callOf[t]].wsToken \notin DOMAIN wsTokenToCallId
      /\ callState[callOf[t]].callControlId \notin DOMAIN callControlIdToCallId

\* C10: an escalated event whose call failed is answered 'notify', and an
\* event answered 'escalate_call' had the user's decision typed into its
\* terminal target.
EscalationFailureNotifies ==
  \A t \in Tasks :
    (kind[t] = "escalation" /\ pc[t] = "done") =>
      /\ (outcome[t].initiate # "ok" \/ outcome[t].end # "ok") => hookResp[t] = "notify"
      /\ hookResp[t] = "escalate_call" => delivered[t]

(***************************************************************************)
(* EscalationEvaluator                                                     *)
(***************************************************************************)
\* Date.now(), in milliseconds.
DateNow == Now * 1000

\* DEFAULT_CALL_ESCALATION_CONFIG: triggers.notificationTimeoutSeconds and
\* the two rate limits.
notificationTimeoutSeconds == 120

minCallIntervalSeconds == 300

maxCallsPerHour == 3

\* Math.ceil(a / b) for a > 0, b > 0.
Ceil(a, b) == (a + b - 1) \div b

\* What an evaluation returns.  judged: evaluateWithLLM awaited the
\* provider's analyze; waitSeconds: the number inside a rate-limit reason.
EscalationResult(shouldEscalate, reason, skipNotification, delayMs, waitSeconds, judged) ==
  [shouldEscalate |-> shouldEscalate, reason |-> reason,
   skipNotification |-> skipNotification, delayMs |-> delayMs,
   waitSeconds |-> waitSeconds, judged |-> judged]

isEventTypeEligible(config, eventType) ==
  CASE eventType = "permission_prompt" -> config.triggers.escalatePermissions
    [] eventType = "AskUserQuestion" -> config.triggers.escalateQuestions
    [] eventType = "idle_prompt" -> config.triggers.escalateOnIdle
    [] OTHER -> FALSE

\* The time zones Intl.DateTimeFormat accepts; any other name makes the
\* constructor throw a RangeError.
TimeZones == {"America/Los_Angeles"}

\* The hour part that Intl.DateTimeFormat('en-US', {hour: '2-digit',
\* hour12: false}).formatToParts prints for a local hour 0..23.  The engine
\* resolves hour12: false to the hour cycle h23 (hours 00..23) or h24 (hours
\* 01..24, midnight printed as 24), depending on its version.
hourPart(clock) ==
  IF clock.hourCycle = "h24" /\ clock.hour = 0 THEN 24 ELSE clock.hour

\* quietHours.start and quietHours.end are "HH:MM", here <<HH, MM>>.
isQuietHours(config, clock) ==
  IF ~config.quietHours.enabled THEN FALSE
  ELSE IF config.quietHours.timezone \notin TimeZones THEN FALSE
  ELSE
    LET currentMinutes == hourPart(clock) * 60 + clock.minute
        startMinutes == config.quietHours.start[1] * 60 + config.quietHours.start[2]
        endMinutes == config.quietHours.end[1] * 60 + config.quietHours.end[2]
    IN IF startMinutes > endMinutes
       THEN currentMinutes >= startMinutes \/ currentMinutes < endMinutes
       ELSE currentMinutes >= startMinutes /\ currentMinutes < endMinutes

\* checkRateLimits comparing the elapsed milliseconds with the interval in
\* seconds.
checkRateLimitsInSeconds(config, context) ==
  LET elapsed == DateNow - context.previousCallAt
      minInterval == config.rateLimiting.minCallIntervalSeconds
  IN IF context.previousCallAt # 0 /\ elapsed < minInterval
     THEN [allowed |-> FALSE, reason |-> "Rate limit: must wait",
           waitSeconds |-> Ceil(minInterval - elapsed, 1000)]
     ELSE IF context.callCountLastHour >= config.rateLimiting.maxCallsPerHour
     THEN [allowed |-> FALSE, reason |-> "Rate limit: max calls/hour reached",
           waitSeconds |-> 0]
     ELSE [allowed |-> TRUE, reason |-> "", waitSeconds |-> 0]

\* context.previousCallAt and context.notificationSentAt are 0 when absent
\* (undefined and 0 are both falsy).
checkRateLimits(config, context) ==
  LET elapsed == DateNow - context.previousCallAt
      minInterval == config.rateLimiting.minCallIntervalSeconds * 1000
  IN IF context.previousCallAt # 0 /\ elapsed < minInterval
     THEN [allowed |-> FALSE, reason |-> "Rate limit: must wait",
           waitSeconds |-> Ceil(minInterval - elapsed, 1000)]
     ELSE IF context.callCountLastHour >= config.rateLimiting.maxCallsPerHour
     THEN [allowed |-> FALSE, reason |-> "Rate limit: max calls/hour reached",
           waitSeconds |-> 0]
     ELSE [allowed |-> TRUE, reason |-> "", waitSeconds |-> 0]

\* compiledAlwaysCallPatterns.some(pattern => pattern.test(content)); the
\* event carries whether its content matches one of the patterns.
matchesAlwaysCallPatterns(context) == context.matchesAlwaysCall

\* How the provider's analyze ends for the judge: it rejects, or it resolves
\* with a result whose response is absent, or is text with or without a
\* {...} part; the {...} part parses as JSON or not; the JSON says
\* shouldCall: true or not; the text holds one of 'yes', 'call', 'true'.
JudgeAnswer(rejects, response, braces, parses, shouldCall, keyword) ==
  [rejects |-> rejects, response |-> response, braces |-> braces,
   parses |-> parses, shouldCall |-> shouldCall, keyword |-> keyword]

JudgeAnswers ==
  { JudgeAnswer(TRUE, FALSE, FALSE, FALSE, FALSE, FALSE),
    JudgeAnswer(FALSE, FALSE, FALSE, FALSE, FALSE, FALSE),
    JudgeAnswer(FALSE, TRUE, TRUE, TRUE, TRUE, TRUE),
    JudgeAnswer(FALSE, TRUE, TRUE, TRUE, FALSE, FALSE),
    JudgeAnswer(FALSE, TRUE, TRUE, FALSE, FALSE, TRUE),
    JudgeAnswer(FALSE, TRUE, TRUE, FALSE, FALSE, FALSE),
    JudgeAnswer(FALSE, TRUE, FALSE, FALSE, FALSE, TRUE) }

\* evaluateWithLLM whose catch escalates.
evaluateWithLLMEscalatesOnError(this, context, judge) ==
  IF ~this.llmProvider
  THEN EscalationResult(FALSE, "LLM provider not available", FALSE, 0, 0, FALSE)
  ELSE IF judge.rejects
  THEN EscalationResult(TRUE, "LLM evaluation failed", FALSE, 0, 0, TRUE)
  ELSE
    LET shouldCall ==
          IF judge.response /\ judge.braces
          THEN IF judge.parses THEN judge.shouldCall ELSE judge.keyword
          ELSE FALSE
    IN EscalationResult(shouldCall, "LLM", FALSE, 0, 0, TRUE)

\* evaluateWithLLM: a rejected analyze is caught and declines.
evaluateWithLLM(this, context, judge) ==
  IF ~this.llmProvider
  THEN EscalationResult(FALSE, "LLM provider not available", FALSE, 0, 0, FALSE)
  ELSE IF judge.rejects
  THEN EscalationResult(FALSE, "LLM evaluation failed", FALSE, 0, 0, TRUE)
  ELSE
    LET shouldCall ==
          IF judge.response /\ judge.braces
          THEN IF judge.parses THEN judge.shouldCall ELSE judge.keyword
          ELSE FALSE
    IN EscalationResult(shouldCall, "LLM", FALSE, 0, 0, TRUE)

\* evaluate examining the always-call patterns before the vetoes.
evaluatePatternsFirst(this, context, clock, judge) ==
  LET config == this.config
      rateLimitResult == checkRateLimits(config, context)
      elapsed == DateNow - context.notificationSentAt
      timeoutMs == config.triggers.notificationTimeoutSeconds * 1000
  IN IF matchesAlwaysCallPatterns(context)
     THEN EscalationResult(TRUE, "Matches always-call pattern", TRUE, 0, 0, FALSE)
     ELSE IF ~config.enabled
     THEN EscalationResult(FALSE, "Call escalation is disabled", FALSE, 0, 0, FALSE)
     ELSE IF ~isEventTypeEligible(config, context.event_type)
     THEN EscalationResult(FALSE, "Event type not configured for escalation",
                           FALSE, 0, 0, FALSE)
     ELSE IF isQuietHours(config, clock)
     THEN EscalationResult(FALSE, "Currently in quiet hours", FALSE, 0, 0, FALSE)
     ELSE IF ~rateLimitResult.allowed
     THEN EscalationResult(FALSE, rateLimitResult.reason, FALSE, 0,
                           rateLimitResult.waitSeconds, FALSE)
     ELSE IF context.notificationSentAt # 0 /\ elapsed < timeoutMs
     THEN EscalationResult(FALSE, "Notification timeout not yet elapsed", FALSE,
                           timeoutMs - elapsed, 0, FALSE)
     ELSE IF config.triggers.useLlmForEscalation /\ this.llmProvider
     THEN evaluateWithLLM(this, context, judge)
     ELSE EscalationResult(TRUE, "Notification timeout elapsed", FALSE, 0, 0, FALSE)

\* evaluate examining the notification timeout before the always-call
\* patterns.
evaluateTimeoutFirst(this, context, clock, judge) ==
  LET config == this.config
      rateLimitResult == checkRateLimits(config, context)
      elapsed == DateNow - context.notificationSentAt
      timeoutMs == config.triggers.notificationTimeoutSeconds * 1000
  IN IF ~config.enabled
     THEN EscalationResult(FALSE, "Call escalation is disabled", FALSE, 0, 0, FALSE)
     ELSE IF ~isEventTypeEligible(config, context.event_type)
     THEN EscalationResult(FALSE, "Event type not configured for escalation",
                           FALSE, 0, 0, FALSE)
     ELSE IF isQuietHours(config, clock)
     THEN EscalationResult(FALSE, "Currently in quiet hours", FALSE, 0, 0, FALSE)
     ELSE IF ~rateLimitResult.allowed
     THEN EscalationResult(FALSE, rateLimitResult.reason, FALSE, 0,
                           rateLimitResult.waitSeconds, FALSE)
     ELSE IF context.notificationSentAt # 0 /\ elapsed < timeoutMs
     THEN EscalationResult(FALSE, "Notification timeout not yet elapsed", FALSE,
                           timeoutMs - elapsed, 0, FALSE)
     ELSE IF matchesAlwaysCallPatterns(context)
     THEN EscalationResult(TRUE, "Matches always-call pattern", TRUE, 0, 0, FALSE)
     ELSE IF config.triggers.useLlmForEscalation /\ this.llmProvider
     THEN evaluateWithLLM(this, context, judge)
     ELSE EscalationResult(TRUE, "Notification timeout elapsed", FALSE, 0, 0, FALSE)

\* evaluate: the four vetoes in order, the always-call patterns, the
\* notification timeout, the judge, and the default.
evaluate(this, context, clock, judge) ==
  LET config == this.config
      rateLimitResult == checkRateLimits(config, context)
      elapsed == DateNow - context.notificationSentAt
      timeoutMs == config.triggers.notificationTimeoutSeconds * 1000
  IN IF ~config.enabled
     THEN EscalationResult(FALSE, "Call escalation is disabled", FALSE, 0, 0, FALSE)
     ELSE IF ~isEventTypeEligible(config, context.event_type)
     THEN EscalationResult(FALSE, "Event type not configured for escalation",
                           FALSE, 0, 0, FALSE)
     ELSE IF isQuietHours(config, clock)
     THEN EscalationResult(FALSE, "Currently in quiet hours", FALSE, 0, 0, FALSE)
     ELSE IF ~rateLimitResult.allowed
     THEN EscalationResult(FALSE, rateLimitResult.reason, FALSE, 0,
                           rateLimitResult.waitSeconds, FALSE)
     ELSE IF matchesAlwaysCallPatterns(context)
     THEN EscalationResult(TRUE, "Matches always-call pattern", TRUE, 0, 0, FALSE)
     ELSE IF context.notificationSentAt # 0 /\ elapsed < timeoutMs
     THEN EscalationResult(FALSE, "Notification timeout not yet elapsed", FALSE,
                           timeoutMs - elapsed, 0, FALSE)
     ELSE IF config.triggers.useLlmForEscalation /\ this.llmProvider
     THEN evaluateWithLLM(this, context, judge)
     ELSE EscalationResult(TRUE, "Notification timeout elapsed", FALSE, 0, 0, FALSE)


(***************************************************************************)
(* Inputs of the evaluator: configurations, contexts, clocks               *)
(***************************************************************************)
Triggers(escalatePermissions, escalateQuestions, escalateOnIdle, useLlmForEscalation) ==
  [escalatePermissions |-> escalatePermissions, escalateQuestions |-> escalateQuestions,
   escalateOnIdle |-> escalateOnIdle, useLlmForEscalation |-> useLlmForEscalation,
   notificationTimeoutSeconds |-> notificationTimeoutSeconds]

\* The defaults escalate permission prompts only; the second setting turns
\* the three switches over.
TriggerConfigs ==
  { Triggers(TRUE, FALSE, FALSE, llm) : llm \in BOOLEAN } \cup
  { Triggers(FALSE, TRUE, TRUE, llm) : llm \in BOOLEAN }

QuietHours(enabled, start, end, timezone) ==
  [enabled |-> enabled, start |-> start, end |-> end, timezone |-> timezone]

RateLimiting(interval, cap) ==
  [minCallIntervalSeconds |-> interval, maxCallsPerHour |-> cap]

CallEscalationConfig(enabled, triggers, quietHours, rateLimiting) ==
  [enabled |-> enabled, triggers |-> triggers, quietHours |-> quietHours,
   rateLimiting |-> rateLimiting]

\* Windows for whole evaluations: none, the default overnight window, a
\* window that starts at midnight, and the default window in a time zone
\* the runtime does not know.
EvaluateQuietHours ==
  { QuietHours(FALSE, <<22, 0>>, <<8, 0>>, "America/Los_Angeles"),
    QuietHours(TRUE, <<22, 0>>, <<8, 0>>, "America/Los_Angeles"),
    QuietHours(TRUE, <<0, 0>>, <<6, 0>>, "America/Los_Angeles"),
    QuietHours(TRUE, <<22, 0>>, <<8, 0>>, "America/Los_Angles") }

Evaluators ==
  { [config |-> CallEscalationConfig(enabled, triggers, quietHours,
                                     RateLimiting(minCallIntervalSeconds, maxCallsPerHour)),
     llmProvider |-> llmProvider] :
      enabled \in BOOLEAN, triggers \in TriggerConfigs,
      quietHours \in EvaluateQuietHours, llmProvider \in BOOLEAN }

EscalationContext(event_type, matchesAlwaysCall, notificationSentAt, previousCallAt, callCountLastHour) ==
  [event_type |-> event_type, matchesAlwaysCall |-> matchesAlwaysCall,
   notificationSentAt |-> notificationSentAt, previousCallAt |-> previousCallAt,
   callCountLastHour |-> callCountLastHour]

HookEventTypes == {"permission_prompt", "AskUserQuestion", "idle_prompt", "Stop"}

\* A notification: none, one minute ago, beyond the timeout.
SentAts == {0, DateNow - 60000, DateNow - notificationTimeoutSeconds * 1000}

\* A previous call: none, 200 s ago, 400 s ago.
PreviousCallAts == {0, DateNow - 200000, DateNow - 400000}

EvaluateContexts ==
  { EscalationContext(ty, m, sent, prev, n) :
      ty \in HookEventTypes, m \in BOOLEAN, sent \in SentAts,
      prev \in PreviousCallAts, n \in {0, maxCallsPerHour} }

\* The wall clock in the configured time zone, and the engine's hour cycle.
Clock(hour, minute, hourCycle) ==
  [hour |-> hour, minute |-> minute, hourCycle |-> hourCycle]

HourCycles == {"h23", "h24"}

EvaluateClocks ==
  { Clock(0, 30, hc) : hc \in HourCycles } \cup { Clock(12, 0, "h23"), Clock(23, 0, "h23") }

NoJudge == JudgeAnswer(FALSE, FALSE, FALSE, FALSE, FALSE, FALSE)

NoResult == EscalationResult(FALSE, "", FALSE, 0, 0, FALSE)

EvaluateInputs ==
  { [kind |-> "evaluate", applied |-> FALSE, this |-> this, context |-> context,
     clock |-> clock, judge |-> NoJudge, result |-> NoResult] :
      this \in Evaluators, context \in EvaluateContexts, clock \in EvaluateClocks }

\* escalationEvaluator.evaluate(context); judge is how the provider's
\* analyze ends if evaluation gets to await it.
Evaluate(judge) ==
  /\ probe.kind = "evaluate" /\ ~probe.applied
  /\ LET result == evaluate(probe.this, probe.context, probe.clock, judge) IN
       /\ result.judged \/ judge = NoJudge
       /\ probe' = [probe EXCEPT !.applied = TRUE, !.judge = judge, !.result = result]
  /\ UNCHANGED <<cfgVars, netVars, cmVars, envVars, taskVars, trackerVars, conv, httpLog, wsLog>>

\* Inputs of isQuietHours alone: every minute of the day, under both hour
\* cycles, against overnight, same-day, midnight-start and empty windows.
QuietWindows ==
  { QuietHours(TRUE, <<22, 0>>, <<8, 0>>, "America/Los_Angeles"),
    QuietHours(TRUE, <<9, 0>>, <<17, 0>>, "America/Los_Angeles"),
    QuietHours(TRUE, <<0, 0>>, <<6, 0>>, "America/Los_Angeles"),
    QuietHours(TRUE, <<23, 30>>, <<0, 30>>, "America/Los_Angeles"),
    QuietHours(TRUE, <<12, 0>>, <<12, 0>>, "America/Los_Angeles") }

QuietInputs ==
  { [kind |-> "isQuietHours", applied |-> FALSE, config |-> [quietHours |-> w],
     clock |-> Clock(h, m, hc), result |-> FALSE] :
      w \in QuietWindows, h \in 0..23, m \in 0..59, hc \in HourCycles }

IsQuietHours ==
  /\ probe.kind = "isQuietHours" /\ ~probe.applied
  /\ probe' = [probe EXCEPT !.applied = TRUE,
                            !.result = isQuietHours(probe.config, probe.clock)]
  /\ UNCHANGED <<cfgVars, netVars, cmVars, envVars, taskVars, trackerVars, conv, httpLog, wsLog>>

\* Inputs of checkRateLimits alone: the time since the previous call in
\* milliseconds (negative: the previous call is stamped after now), or no
\* previous call; and the number of calls in the last hour.
ElapsedMs ==
  {-5000, 0, 1, 999, 1000, 200000, 299000, 299001, 299999, 300000, 300001, 400000}

RateInputs ==
  { [kind |-> "checkRateLimits", applied |-> FALSE,
     config |-> [rateLimiting |-> RateLimiting(minCallIntervalSeconds, maxCallsPerHour)],
     context |-> [previousCallAt |-> prev, callCountLastHour |-> n],
     result |-> [allowed |-> FALSE, reason |-> "", waitSeconds |-> 0]] :
      prev \in {0} \cup { DateNow - e : e \in ElapsedMs }, n \in 0..(maxCallsPerHour + 1) }

CheckRateLimits ==
  /\ probe.kind = "checkRateLimits" /\ ~probe.applied
  /\ probe' = [probe EXCEPT !.applied = TRUE,
                            !.result = checkRateLimits(probe.config, probe.context)]
  /\ UNCHANGED <<cfgVars, netVars, cmVars, envVars, taskVars, trackerVars, conv, httpLog, wsLog>>


(***************************************************************************)
(* Specification of the evaluator: the inputs are drawn, the functions     *)
(* applied                                                                 *)
(***************************************************************************)
InitEval ==
  /\ Constructed /\ keyConfigured /\ ~freeTier
  /\ probe \in EvaluateInputs \cup QuietInputs \cup RateInputs

NextEval ==
  \/ \E judge \in JudgeAnswers : Evaluate(judge)
  \/ IsQuietHours
  \/ CheckRateLimits

SpecEval == InitEval /\ [][NextEval]_vars

(***************************************************************************)
(* Properties of the evaluator                                             *)
(***************************************************************************)
Evaluated == probe.kind = "evaluate" /\ probe.applied

\* The four vetoes of an evaluation, in the order of the policy.
Vetoes(p) ==
  << ~p.this.config.enabled,
     ~isEventTypeEligible(p.this.config, p.context.event_type),
     isQuietHours(p.this.config, p.clock),
     ~checkRateLimits(p.this.config, p.context).allowed >>

VetoReasons(p) ==
  << "Call escalation is disabled",
     "Event type not configured for escalation",
     "Currently in quiet hours",
     checkRateLimits(p.this.config, p.context).reason >>

Vetoed(p) == \E i \in 1..4 : Vetoes(p)[i]

FirstVeto(p) == CHOOSE i \in 1..4 : Vetoes(p)[i] /\ \A j \in 1..(i - 1) : ~Vetoes(p)[j]

\* C11: when escalation is disabled, the event type is not enabled, the time
\* is in quiet hours or a rate limit is hit, evaluate answers
\* shouldEscalate = false with the reason of the first of these in that
\* order, whatever the content, the notification timeout and the judge; the
\* judge is not consulted.
VetoOrder ==
  (Evaluated /\ Vetoed(probe)) =>
    /\ ~probe.result.shouldEscalate
    /\ ~probe.result.skipNotification
    /\ ~probe.result.judged
    /\ probe.result.reason = VetoReasons(probe)[FirstVeto(probe)]

\* A rate-limited event whose content matches an always-call pattern, with
\* the judge available, was refused.
VetoOrderWitness ==
  /\ Evaluated
  /\ Vetoed(probe) /\ FirstVeto(probe) = 4
  /\ probe.context.matchesAlwaysCall
  /\ probe.this.llmProvider /\ probe.this.config.triggers.useLlmForEscalation
  /\ ~probe.result.shouldEscalate

\* C12: with no veto, content that matches an always-call pattern escalates
\* with skipNotification, whether or not a notification was sent, whatever
\* is left of its timeout, and with or without LLM arbitration.
AlwaysCallEscalates ==
  (Evaluated /\ ~Vetoed(probe) /\ probe.context.matchesAlwaysCall) =>
    /\ probe.result.shouldEscalate
    /\ probe.result.skipNotification
    /\ ~probe.result.judged

\* A matching event, one minute into the notification timeout, with the
\* judge enabled, was escalated.
AlwaysCallWitness ==
  /\ Evaluated /\ ~Vetoed(probe) /\ probe.context.matchesAlwaysCall
  /\ probe.context.notificationSentAt = DateNow - 60000
  /\ probe.this.llmProvider /\ probe.this.config.triggers.useLlmForEscalation
  /\ probe.result.shouldEscalate /\ probe.result.skipNotification

RateChecked == probe.kind = "checkRateLimits" /\ probe.applied

\* C13: a previous call less than minCallIntervalSeconds ago refuses, and the
\* wait reported is the remaining time in whole seconds (300 s interval,
\* 200 s ago: 100); callCountLastHour >= maxCallsPerHour refuses whatever the
\* time since the last call; otherwise the call is allowed.  A refusal by
\* checkRateLimits is a refusal by evaluate.
RateCheck ==
  /\ RateChecked =>
       LET prev == probe.context.previousCallAt
           sinceMs == DateNow - prev
           intervalMs == probe.config.rateLimiting.minCallIntervalSeconds * 1000
           tooSoon == prev # 0 /\ sinceMs < intervalMs
           capped == probe.context.callCountLastHour >=
                       probe.config.rateLimiting.maxCallsPerHour
           wait == probe.result.waitSeconds
       IN /\ tooSoon => /\ ~probe.result.allowed
                        /\ wait * 1000 >= intervalMs - sinceMs
                        /\ (wait - 1) * 1000 < intervalMs - sinceMs
          /\ (tooSoon /\ intervalMs = 300000 /\ sinceMs = 200000) => wait = 100
          /\ capped => ~probe.result.allowed
          /\ (~tooSoon /\ ~capped) => probe.result.allowed
  /\ (Evaluated /\ ~checkRateLimits(probe.this.config, probe.context).allowed) =>
       ~probe.result.shouldEscalate

\* A call 200 s after the previous one, below the hourly cap, was
\* refused with a wait of 100 s.
RateCheckWitness ==
  /\ RateChecked
  /\ probe.context.previousCallAt = DateNow - 200000
  /\ probe.context.callCountLastHour = 0
  /\ ~probe.result.allowed /\ probe.result.waitSeconds = 100

\* The quiet times of a window, by the minute of the day (0..1439).
QuietAt(now, start, end) ==
  IF start > end THEN now >= start \/ now < end ELSE start <= now /\ now < end

MinuteOfDay(clock) == clock.hour * 60 + clock.minute

Minutes(hhmm) == hhmm[1] * 60 + hhmm[2]

\* C14: for every minute of the day and every window, isQuietHours is true
\* exactly at the quiet times of the window (start > end: now >= start or
\* now < end; otherwise start <= now < end), and evaluate never escalates at
\* a quiet time of an enabled window.
QuietHoursExact ==
  /\ (probe.kind = "isQuietHours" /\ probe.applied) =>
       probe.result = QuietAt(MinuteOfDay(probe.clock),
                              Minutes(probe.config.quietHours.start),
                              Minutes(probe.config.quietHours.end))
  /\ (Evaluated /\ probe.this.config.quietHours.enabled
        /\ probe.this.config.quietHours.timezone \in TimeZones
        /\ QuietAt(MinuteOfDay(probe.clock),
                   Minutes(probe.this.config.quietHours.start),
                   Minutes(probe.this.config.quietHours.end))) =>
       ~probe.result.shouldEscalate

\* C15: when evaluation gets to the judge and the provider's analyze
\* rejects, evaluate resolves with shouldEscalate = false.
JudgeFailureDeclines ==
  (Evaluated /\ probe.result.judged /\ probe.judge.rejects) =>
    ~probe.result.shouldEscalate

\* An evaluation that awaited the judge, whose analyze rejected, declined.
JudgeFailureWitness ==
  /\ Evaluated /\ probe.result.judged /\ probe.judge.rejects
  /\ ~probe.result.shouldEscalate
  /\ probe.result.reason = "LLM evaluation failed"


(***************************************************************************)
(* RuleEngine, the LLM providers and the auto-respond branch of            *)
(* processEvent                                                            *)
(***************************************************************************)
mapEventTypeToPromptType(eventType) ==
  CASE eventType = "AskUserQuestion" -> "question"
    [] eventType = "permission_prompt" -> "permission"
    [] eventType = "idle_prompt" -> "idle"
    [] OTHER -> "question"

\* RuleEngine.getPromptRules: config.prompts by prompt type.
getPromptRules(config, eventType) ==
  CASE mapEventTypeToPromptType(eventType) = "question" -> config.prompts.questions
    [] mapEventTypeToPromptType(eventType) = "permission" -> config.prompts.permissions
    [] mapEventTypeToPromptType(eventType) = "idle" -> config.prompts.idle

\* RuleEngine.getSuggestedResponse: grant_response, default_response or 'yes',
\* never empty.
getSuggestedResponse(promptRules) ==
  IF promptRules.grant_response # "" THEN promptRules.grant_response
  ELSE IF promptRules.default_response # "" THEN promptRules.default_response
  ELSE "yes"

RuleEvaluation(shouldAutoRespond, suggestedResponse, requiresLLM) ==
  [shouldAutoRespond |-> shouldAutoRespond, suggestedResponse |-> suggestedResponse,
   requiresLLM |-> requiresLLM]

\* RuleEngine.evaluate testing the auto_respond_patterns before the
\* always_notify_patterns.
rulesEvaluateRespondFirst(config, event) ==
  LET promptRules == getPromptRules(config, event.event_type) IN
  IF ~config.enabled THEN RuleEvaluation(FALSE, "", FALSE)
  ELSE IF ~promptRules.enabled THEN RuleEvaluation(FALSE, "", FALSE)
  ELSE IF event.matchesAutoRespond
  THEN RuleEvaluation(TRUE, getSuggestedResponse(promptRules),
                      promptRules.use_llm_for_response)
  ELSE IF event.matchesAlwaysNotify THEN RuleEvaluation(FALSE, "", FALSE)
  ELSE IF config.default_action = "auto_respond"
  THEN RuleEvaluation(TRUE, getSuggestedResponse(promptRules), TRUE)
  ELSE RuleEvaluation(FALSE, "", FALSE)

\* RuleEngine.evaluate.  The event carries whether its content matches the
\* always_notify_patterns and the auto_respond_patterns of its prompt rules.
rulesEvaluate(config, event) ==
  LET promptRules == getPromptRules(config, event.event_type) IN
  IF ~config.enabled THEN RuleEvaluation(FALSE, "", FALSE)
  ELSE IF ~promptRules.enabled THEN RuleEvaluation(FALSE, "", FALSE)
  ELSE IF event.matchesAlwaysNotify THEN RuleEvaluation(FALSE, "", FALSE)
  ELSE IF event.matchesAutoRespond
  THEN RuleEvaluation(TRUE, getSuggestedResponse(promptRules),
                      promptRules.use_llm_for_response)
  ELSE IF config.default_action = "auto_respond"
  THEN RuleEvaluation(TRUE, getSuggestedResponse(promptRules), TRUE)
  ELSE RuleEvaluation(FALSE, "", FALSE)

\* How the request to the model's API ends inside analyze: the request
\* fails, the reply has no text, the text is not JSON, or the text is JSON
\* with an action and possibly a response.
ApiReply(ok, text, json, action, response) ==
  [ok |-> ok, text |-> text, json |-> json, action |-> action, response |-> response]

ApiReplies ==
  { ApiReply(FALSE, FALSE, FALSE, "", ""),
    ApiReply(TRUE, FALSE, FALSE, "", ""),
    ApiReply(TRUE, TRUE, FALSE, "", ""),
    ApiReply(TRUE, TRUE, TRUE, "auto_respond", "y"),
    ApiReply(TRUE, TRUE, TRUE, "auto_respond", ""),
    ApiReply(TRUE, TRUE, TRUE, "notify", ""),
    ApiReply(TRUE, TRUE, TRUE, "ignore", "") }

\* The request, the reply's content or JSON.parse threw inside analyze.
ApiFailed(api) == ~api.ok \/ ~api.text \/ ~api.json

LLMResponse(rejected, action, response) ==
  [rejected |-> rejected, action |-> action, response |-> response]

\* analyze without its catch: a failure rejects the promise.
analyzeRethrows(api) ==
  IF ApiFailed(api) THEN LLMResponse(TRUE, "", "")
  ELSE LLMResponse(FALSE, api.action, api.response)

\* ClaudeProvider.analyze (OpenAIProvider and OllamaProvider alike): a
\* failure inside try is caught and answered with the action 'notify'.
analyze(api) ==
  IF ApiFailed(api) THEN LLMResponse(FALSE, "notify", "")
  ELSE LLMResponse(FALSE, api.action, api.response)

ServiceResponse(handled, action) == [handled |-> handled, action |-> action]

\* processEvent from "Ensure we have a response" to the await of
\* tmuxResponder.sendResponse, for the event p: answered at once, or on to
\* the send.
respond(p, response) ==
  IF response = ""
  THEN [p EXCEPT !.stage = "done", !.reply = ServiceResponse(FALSE, "notify")]
  ELSE IF p.config.dry_run
  THEN [p EXCEPT !.stage = "done", !.response = response,
                 !.reply = ServiceResponse(TRUE, "auto_respond")]
  ELSE [p EXCEPT !.stage = "send", !.response = response]

\* processEvent up to its first await: the rules are evaluated; then the
\* await of escalationEvaluator.evaluate (the call service is configured and
\* the rules do not auto-respond), or notify, or the await of
\* llmProvider.analyze, or the response of the rules.
ProcessEventBegin ==
  /\ probe.kind = "processEvent" /\ probe.stage = "received"
  /\ LET ruleResult == rulesEvaluate(probe.config, probe.event)
         p == [probe EXCEPT !.ruleResult = ruleResult]
     IN probe' = IF ~ruleResult.shouldAutoRespond /\ probe.callService
                 THEN [p EXCEPT !.stage = "evaluate"]
                 ELSE IF ~ruleResult.shouldAutoRespond
                 THEN [p EXCEPT !.stage = "done",
                                !.reply = ServiceResponse(FALSE, "notify")]
                 ELSE IF ruleResult.requiresLLM /\ probe.llmProvider
                 THEN [p EXCEPT !.stage = "analyze"]
                 ELSE respond(p, ruleResult.suggestedResponse)
  /\ UNCHANGED <<cfgVars, netVars, cmVars, envVars, taskVars, trackerVars, conv, httpLog, wsLog>>

\* escalationEvaluator.evaluate settles: escalate, which awaits
\* callService.handleCall, or not, which is answered with notify.
ProcessEventEvaluated(shouldEscalate) ==
  /\ probe.kind = "processEvent" /\ probe.stage = "evaluate"
  /\ probe' = IF shouldEscalate
              THEN [probe EXCEPT !.stage = "call"]
              ELSE [probe EXCEPT !.stage = "done",
                                 !.reply = ServiceResponse(FALSE, "notify")]
  /\ UNCHANGED <<cfgVars, netVars, cmVars, envVars, taskVars, trackerVars, conv, httpLog, wsLog>>

\* callService.handleCall settles: initiateCall or CallManager.endCall threw
\* (failed); or the call ended and CallService.endCall typed what the user
\* said into the event's terminal target (routed); or it ended and nothing
\* was typed, the reply being empty, the mapping gone or the send failing
\* inside endCall's try (unrouted).
ProcessEventCalled(call) ==
  /\ probe.kind = "processEvent" /\ probe.stage = "call"
  /\ probe' = [probe EXCEPT !.stage = "done", !.routed = (call = "routed"),
                            !.reply = IF call = "failed"
                                      THEN ServiceResponse(FALSE, "notify")
                                      ELSE ServiceResponse(TRUE, "escalate_call")]
  /\ UNCHANGED <<cfgVars, netVars, cmVars, envVars, taskVars, trackerVars, conv, httpLog, wsLog>>

\* llmProvider.analyze settles: an action other than auto_respond is
\* answered as it is; a rejection is caught and falls back to the response
\* of the rules; otherwise the model's response, if any, replaces it.
ProcessEventAnalyzed(api) ==
  /\ probe.kind = "processEvent" /\ probe.stage = "analyze"
  /\ LET llmResult == analyze(api)
         p == [probe EXCEPT !.api = api]
     IN probe' = IF llmResult.rejected
                 THEN respond(p, probe.ruleResult.suggestedResponse)
                 ELSE IF llmResult.action # "auto_respond"
                 THEN [p EXCEPT !.stage = "done",
                                !.reply = ServiceResponse(FALSE, llmResult.action)]
                 ELSE IF llmResult.response # ""
                 THEN respond(p, llmResult.response)
                 ELSE respond(p, probe.ruleResult.suggestedResponse)
  /\ UNCHANGED <<cfgVars, netVars, cmVars, envVars, taskVars, trackerVars, conv, httpLog, wsLog>>

\* tmuxResponder.sendResponse settles: the text was typed into the terminal
\* target, or the send threw.
ProcessEventSent(ok) ==
  /\ probe.kind = "processEvent" /\ probe.stage = "send"
  /\ probe' = [probe EXCEPT !.stage = "done", !.sent = ok,
                            !.reply = IF ok THEN ServiceResponse(TRUE, "auto_respond")
                                      ELSE ServiceResponse(FALSE, "notify")]
  /\ UNCHANGED <<cfgVars, netVars, cmVars, envVars, taskVars, trackerVars, conv, httpLog, wsLog>>

\* The rules of a prompt type and the rules configuration.
PromptRules(enabled, use_llm_for_response, grant_response, default_response) ==
  [enabled |-> enabled, use_llm_for_response |-> use_llm_for_response,
   grant_response |-> grant_response, default_response |-> default_response]

RulesConfig(enabled, default_action, dry_run, promptRules) ==
  [enabled |-> enabled, default_action |-> default_action, dry_run |-> dry_run,
   prompts |-> [questions |-> promptRules, permissions |-> promptRules,
                idle |-> promptRules]]

RulesConfigs ==
  { RulesConfig(enabled, default_action, dry_run,
                PromptRules(promptEnabled, llm, grant, "")) :
      enabled \in BOOLEAN, default_action \in {"auto_respond", "notify"},
      dry_run \in BOOLEAN, promptEnabled \in BOOLEAN, llm \in BOOLEAN,
      grant \in {"", "y"} }

IncomingEvents ==
  { [event_type |-> ty, matchesAlwaysNotify |-> n, matchesAutoRespond |-> a] :
      ty \in {"permission_prompt", "AskUserQuestion"}, n \in BOOLEAN, a \in BOOLEAN }

ProcessEventInputs ==
  { [kind |-> "processEvent", stage |-> "received", config |-> config, event |-> event,
     llmProvider |-> llmProvider, ruleResult |-> RuleEvaluation(FALSE, "", FALSE),
     api |-> ApiReply(FALSE, FALSE, FALSE, "", ""), response |-> "", sent |-> FALSE,
     callService |-> callService, routed |-> FALSE,
     reply |-> ServiceResponse(FALSE, "")] :
      config \in RulesConfigs, event \in IncomingEvents, llmProvider \in BOOLEAN,
      callService \in BOOLEAN }

InitRespond ==
  /\ Constructed /\ keyConfigured /\ ~freeTier
  /\ probe \in ProcessEventInputs

NextRespond ==
  \/ ProcessEventBegin
  \/ \E shouldEscalate \in BOOLEAN : ProcessEventEvaluated(shouldEscalate)
  \/ \E call \in {"failed", "routed", "unrouted"} : ProcessEventCalled(call)
  \/ \E api \in ApiReplies : ProcessEventAnalyzed(api)
  \/ \E ok \in BOOLEAN : ProcessEventSent(ok)

SpecRespond == InitRespond /\ [][NextRespond]_vars

HungUpWaiting(t) ==
  /\ kind[t] = "conversation"
  /\ "hungup" \in {outcome[t].initiate, outcome[t].continue}

\* C17: a hangup while a conversation call waits for a reply finalizes the
\* conversation: the final string is the plan detected in the dialogue or
\* else the response the model extracts, and it is typed into the terminal
\* target the call was started for.
HangupFinalizes ==
  \A t \in Tasks :
    (HungUpWaiting(t) /\ pc[t] = "done") =>
      /\ outcome[t].finalize \in {"plan", "extracted"}
      /\ delivered[t]

(***************************************************************************)
(* SessionTracker on its own: calls registered and removed for terminal    *)
(* targets whose components are arbitrary strings                          *)
(***************************************************************************)
\* event.tmux is read from the JSON of the hook event: three strings.
TrackerTargets ==
  Targets \cup { [session |-> "a:b", window |-> "c", pane |-> "%3"],
                 [session |-> "a", window |-> "b:c", pane |-> "%3"],
                 [session |-> "a", window |-> "b", pane |-> "%3"] }

\* sessionToCall.get(sessionKey) || null; 0 is null.
getCallIdForSession(context) ==
  IF getSessionKey(context) \in DOMAIN sessionToCall
  THEN sessionToCall[getSessionKey(context)]
  ELSE 0

\* sessionTracker.registerCall(callId, tmuxContext, ...) with a new call id.
TrackerRegister(t, tg) ==
  /\ pc[t] = "idle"
  /\ pc' = [pc EXCEPT ![t] = "registered"]
  /\ target' = [target EXCEPT ![t] = tg]
  /\ registerCall(t, tg)
  /\ UNCHANGED <<cfgVars, netVars, cmVars, envVars, callOf, kind, outcome, hookResp,
                 delivered, conv, logVars>>

\* sessionTracker.removeCall(callId) of a registered call.
TrackerRemove(t) ==
  /\ pc[t] = "registered"
  /\ pc' = [pc EXCEPT ![t] = "done"]
  /\ removeCall(t)
  /\ UNCHANGED <<cfgVars, netVars, cmVars, envVars, callOf, kind, target, outcome, hookResp,
                 delivered, conv, logVars>>

NextTracker ==
  \/ \E t \in Tasks, tg \in TrackerTargets : TrackerRegister(t, tg)
  \/ \E t \in Tasks : TrackerRemove(t)

SpecTracker == InitService /\ [][NextTracker]_vars

\* The answers of the tracker for target u are those before the step.
SameAnswers(u) ==
  /\ hasActiveCall(u)' = hasActiveCall(u)
  /\ getCallIdForSession(u)' = getCallIdForSession(u)

\* C18: registering or removing a call for a target t changes neither
\* hasActiveCall(u) nor getCallIdForSession(u) for any other target u,
\* whatever strings the components are; hasActiveCall(t) is true after
\* registerCall and false after removeCall of that call.
TargetsNeverCollide ==
  [][\A c \in Tasks, t \in TrackerTargets :
       /\ (/\ c \notin DOMAIN callToSession /\ c \in DOMAIN callToSession'
           /\ callToSession'[c].tmuxContext = t) =>
            /\ hasActiveCall(t)'
            /\ \A u \in TrackerTargets \ {t} : SameAnswers(u)
       /\ (/\ c \in DOMAIN callToSession /\ c \notin DOMAIN callToSession'
           /\ callToSession[c].tmuxContext = t) =>
            /\ ~hasActiveCall(t)'
            /\ \A u \in TrackerTargets \ {t} : SameAnswers(u)]_vars

(***************************************************************************)
(* validateWebSocketToken on its own                                       *)
(***************************************************************************)
\* Tokens of up to MaxTokenLen characters over two character codes; <<>> is
\* the empty or missing token.
MaxTokenLen == 3

TokenChars == {1, 2}

TokensOfLen(n) == [1..n -> TokenChars]

TokenStrings == UNION { TokensOfLen(n) : n \in 0..MaxTokenLen }

\* One expected token, the token received, and a second received token of
\* the expected token's length to compare the loop's work with.
TokenInputs ==
  UNION { { [kind |-> "validateWebSocketToken", applied |-> FALSE,
             expectedToken |-> e, receivedToken |-> r, otherToken |-> o,
             valid |-> FALSE, steps |-> 0, otherSteps |-> 0] :
              r \in TokenStrings, o \in TokensOfLen(Len(e)) } :
          e \in TokenStrings }

ValidateWebSocketToken ==
  /\ probe.kind = "validateWebSocketToken" /\ ~probe.applied
  /\ LET run == validateWebSocketTokenRun(probe.expectedToken, probe.receivedToken)
         other == validateWebSocketTokenRun(probe.expectedToken, probe.otherToken)
     IN probe' = [probe EXCEPT !.applied = TRUE, !.valid = run.valid,
                               !.steps = run.steps, !.otherSteps = other.steps]
  /\ UNCHANGED <<cfgVars, netVars, cmVars, envVars, taskVars, trackerVars, conv, httpLog, wsLog>>

InitToken ==
  /\ Constructed /\ keyConfigured /\ ~freeTier
  /\ probe \in TokenInputs

NextToken == ValidateWebSocketToken

SpecToken == InitToken /\ [][NextToken]_vars

TokenValidated == probe.kind = "validateWebSocketToken" /\ probe.applied

\* C19: validateWebSocketToken is true exactly when the received token is
\* present and equal to the expected one character for character; one
\* differing character, another length, a missing or an empty token give
\* false.
TokenEquality ==
  TokenValidated =>
    (probe.valid <=> (/\ probe.receivedToken # <<>>
                      /\ Len(probe.receivedToken) = Len(probe.expectedToken)
                      /\ \A i \in 1..Len(probe.expectedToken) :
                           probe.receivedToken[i] = probe.expectedToken[i]))

\* A received token that differs from the expected one in one character
\* only, the first of three, was refused.
TokenEqualityWitness ==
  /\ TokenValidated
  /\ Len(probe.expectedToken) = MaxTokenLen
  /\ Len(probe.receivedToken) = MaxTokenLen
  /\ probe.receivedToken[1] # probe.expectedToken[1]
  /\ \A i \in 2..MaxTokenLen : probe.receivedToken[i] = probe.expectedToken[i]
  /\ ~probe.valid

\* C20: for two received tokens of the expected token's length the loop
\* makes the same number of passes, one per character, wherever the first
\* difference is.
TokenConstantTime ==
  (TokenValidated /\ Len(probe.receivedToken) = Len(probe.expectedToken)) =>
    /\ probe.steps = probe.otherSteps
    /\ probe.steps = Len(probe.expectedToken)

\* One token differing in its first character and one equal to the expected
\* token took the same number of passes.
TokenConstantTimeWitness ==
  /\ TokenValidated
  /\ Len(probe.expectedToken) = MaxTokenLen
  /\ Len(probe.receivedToken) = MaxTokenLen
  /\ probe.receivedToken[1] # probe.expectedToken[1]
  /\ probe.otherToken = probe.expectedToken
  /\ probe.steps = MaxTokenLen /\ probe.otherSteps = MaxTokenLen

(***************************************************************************)
(* validateTelnyxSignature on its own                                      *)
(***************************************************************************)
SignatureTimestamps == Timestamps \cup {TsAt(Now - FiveMinutes)}

SignatureBodies == {NotJson, Event("call.hangup", 1), Event("call.answered", 1)}

\* The signature header: none, or base64 bytes that are or are not the
\* provider's signature over some timestamp and body.
SignatureHeaders ==
  { [present |-> FALSE, genuine |-> FALSE, timestamp |-> TsMissing, body |-> NotJson] } \cup
  { [present |-> TRUE, genuine |-> g, timestamp |-> ts, body |-> b] :
      g \in BOOLEAN, ts \in SignatureTimestamps \ {TsMissing, TsNaN},
      b \in SignatureBodies }

SignatureInputs ==
  { [kind |-> "validateTelnyxSignature", applied |-> FALSE, signature |-> sig,
     timestamp |-> ts, body |-> b, result |-> FALSE] :
      sig \in SignatureHeaders, ts \in SignatureTimestamps, b \in SignatureBodies }

ValidateTelnyxSignature ==
  /\ probe.kind = "validateTelnyxSignature" /\ ~probe.applied
  /\ probe' = [probe EXCEPT !.applied = TRUE,
                 !.result = validateTelnyxSignature(probe.signature, probe.timestamp,
                                                    probe.body)]
  /\ UNCHANGED <<cfgVars, netVars, cmVars, envVars, taskVars, trackerVars, conv, httpLog, wsLog>>

InitSignature ==
  /\ Constructed /\ keyConfigured /\ ~freeTier
  /\ probe \in SignatureInputs

NextSignature == ValidateTelnyxSignature

SpecSignature == InitSignature /\ [][NextSignature]_vars

SignatureValidated == probe.kind = "validateTelnyxSignature" /\ probe.applied

\* The timestamp header is more than five minutes from the local clock.
OutsideWindow(timestamp) ==
  timestamp.numeric /\ Abs(Now - timestamp.value) > FiveMinutes

\* C21: validateTelnyxSignature is false when the signature or the timestamp
\* header is missing or the timestamp is more than five minutes from local
\* time, before or after, whatever the signature; it is true only for a
\* signature that verifies over this timestamp and this body, so a triple
\* with another body or an aged timestamp is refused, and a valid triple
\* inside the window is accepted.
SignatureValidation ==
  SignatureValidated =>
    /\ (~probe.signature.present \/ ~probe.timestamp.present
          \/ OutsideWindow(probe.timestamp)) => ~probe.result
    /\ probe.result => /\ probe.signature.genuine
                       /\ probe.signature.timestamp = probe.timestamp
                       /\ probe.signature.body = probe.body
    /\ (/\ probe.signature.present /\ probe.signature.genuine
        /\ probe.signature.timestamp = probe.timestamp
        /\ probe.signature.body = probe.body
        /\ ~OutsideWindow(probe.timestamp)) => probe.result

\* The provider's signature over the current timestamp and a hangup event,
\* presented with another body, was refused.
SignatureValidationWitness ==
  /\ SignatureValidated
  /\ probe.signature.genuine
  /\ probe.signature.timestamp = TsAt(Now) /\ probe.timestamp = TsAt(Now)
  /\ probe.signature.body = Event("call.hangup", 1)
  /\ probe.body = Event("call.answered", 1)
  /\ ~probe.result

(***************************************************************************)
(* Properties of processEvent's answers                                    *)
(***************************************************************************)
EventProcessed == probe.kind = "processEvent" /\ probe.stage = "done"

\* C22: an event whose content matches an always_notify pattern of its
\* prompt type is never auto-responded: the answer is not auto_respond and
\* no response of the rules or of the model is typed into the terminal,
\* whatever the auto_respond patterns, the default action and the model.
AlwaysNotifyNeverResponds ==
  (probe.kind = "processEvent" /\ probe.stage # "received"
     /\ probe.event.matchesAlwaysNotify /\ probe.config.enabled
     /\ getPromptRules(probe.config, probe.event.event_type).enabled)
  => /\ probe.stage \notin {"analyze", "send"}
     /\ probe.reply.action # "auto_respond"
     /\ ~probe.sent /\ probe.response = ""

\* An event matching both an always_notify and an auto_respond pattern, with
\* default action auto_respond, was answered with notify.
AlwaysNotifyWitness ==
  /\ EventProcessed
  /\ probe.event.matchesAlwaysNotify /\ probe.event.matchesAutoRespond
  /\ probe.config.enabled /\ probe.config.default_action = "auto_respond"
  /\ getPromptRules(probe.config, probe.event.event_type).enabled
  /\ probe.llmProvider /\ ~probe.callService
  /\ probe.reply = ServiceResponse(FALSE, "notify")

\* C23: with rules.dry_run set, processing an event never types a response
\* into a terminal pane.
DryRunSendsNothing ==
  (probe.kind = "processEvent" /\ probe.config.dry_run) =>
    (~probe.sent /\ ~probe.routed)

(***************************************************************************)
(* Audio conversion of CallManager: 24 kHz PCM to 8 kHz mu-law.            *)
(* Numbers are JavaScript numbers; the bitwise operators work on their     *)
(* 32-bit two's complement value.                                          *)
(***************************************************************************)
BIAS == 132
CLIP == 32635
Int16 == -32768 .. 32767

\* a & b of two integers that are not negative.
RECURSIVE BitAndNat(_, _)
BitAndNat(a, b) ==
  IF a = 0 \/ b = 0 THEN 0
  ELSE ((a % 2) * (b % 2)) + 2 * BitAndNat(a \div 2, b \div 2)

\* a & b for a mask b of 16 bits at most: only the low 16 bits of the two's
\* complement of a count.
BitAnd(a, b) == BitAndNat(a % 65536, b)

\* a >> k, the sign-propagating shift.
ShiftRight(a, k) == a \div (2 ^ k)

\* The for loop of pcmToMuLawSample: the mask moves down from 0x4000 until
\* it meets a set bit of pcm or the exponent is 0.
RECURSIVE ExponentLoop(_, _, _)
ExponentLoop(pcm, expMask, exponent) ==
  IF BitAnd(pcm, expMask) = 0 /\ exponent > 0
  THEN ExponentLoop(pcm, ShiftRight(expMask, 1), exponent - 1)
  ELSE exponent

\* pcmToMuLawSample without the clip to CLIP.
pcmToMuLawSampleNoClip(pcm) ==
  LET sign == BitAnd(ShiftRight(pcm, 8), 128)
      magnitude == IF sign # 0 THEN -pcm ELSE pcm
      biased == magnitude + BIAS
      exponent == ExponentLoop(biased, 16384, 7)
      mantissa == BitAnd(ShiftRight(biased, exponent + 3), 15)
  IN BitAnd(-(BitOr(BitOr(sign, exponent * 16), mantissa)) - 1, 255)

\* CallManager.pcmToMuLawSample; ~x is -x - 1.
pcmToMuLawSample(pcm) ==
  LET sign == BitAnd(ShiftRight(pcm, 8), 128)
      magnitude == IF sign # 0 THEN -pcm ELSE pcm
      clipped == IF magnitude > CLIP THEN CLIP ELSE magnitude
      biased == clipped + BIAS
      exponent == ExponentLoop(biased, 16384, 7)
      mantissa == BitAnd(ShiftRight(biased, exponent + 3), 15)
  IN BitAnd(-(BitOr(BitOr(sign, exponent * 16), mantissa)) - 1, 255)

\* Buffer.readInt16LE at a byte offset (buffers are sequences of bytes,
\* offset 0 is element 1) and the two bytes Buffer.writeInt16LE stores.
readInt16LE(buf, offset) ==
  LET u == buf[offset + 1] + 256 * buf[offset + 2]
  IN IF u >= 32768 THEN u - 65536 ELSE u

writeInt16LE(value) == << value % 256, (value \div 256) % 256 >>

\* Math.round of sum / 3: the floor of sum / 3 + 1/2.
RoundThird(sum) == (2 * sum + 3) \div 6

\* s0 + s1 + s2 of resample24kTo8k at output index i.
SampleSum(pcmData, i) ==
  LET baseIdx == i * 3
      s0 == readInt16LE(pcmData, baseIdx * 2)
      s1 == IF 2 * (baseIdx + 1) < Len(pcmData)
            THEN readInt16LE(pcmData, (baseIdx + 1) * 2) ELSE s0
      s2 == IF 2 * (baseIdx + 2) < Len(pcmData)
            THEN readInt16LE(pcmData, (baseIdx + 2) * 2) ELSE s1
  IN s0 + s1 + s2

\* resample24kTo8k with Math.floor in the place of Math.round.
resample24kTo8kFloor(pcmData) ==
  LET outputSamples == Len(pcmData) \div 6
  IN [k \in 1 .. outputSamples * 2 |->
        writeInt16LE(SampleSum(pcmData, (k - 1) \div 2) \div 3)[((k - 1) % 2) + 1]]

\* CallManager.resample24kTo8k: inputSamples is length / 2, outputSamples
\* its third rounded down.
resample24kTo8k(pcmData) ==
  LET outputSamples == Len(pcmData) \div 6
  IN [k \in 1 .. outputSamples * 2 |->
        writeInt16LE(RoundThird(SampleSum(pcmData, (k - 1) \div 2)))[((k - 1) % 2) + 1]]

\* CallManager.pcmToMuLaw.
pcmToMuLaw(pcmData) ==
  [k \in 1 .. (Len(pcmData) \div 2) |-> pcmToMuLawSample(readInt16LE(pcmData, (k - 1) * 2))]

(***************************************************************************)
(* The audio conversion alone: a sample is companded; a buffer of          *)
(* wideband samples is resampled and companded as speak and the streaming  *)
(* path do.                                                                *)
(***************************************************************************)
MaxSamples == 6
AudioSamples == {-32768, -1, 0, 32767}

SamplesOfLen(n) == [1 .. n -> AudioSamples]

\* The bytes of a PCM buffer holding the samples.
PcmBuffer(samples) ==
  [k \in 1 .. 2 * Len(samples) |-> writeInt16LE(samples[((k - 1) \div 2) + 1])[((k - 1) % 2) + 1]]

MuLawInput(pcm) ==
  [kind |-> "pcmToMuLawSample", applied |-> FALSE, pcm |-> pcm, result |-> 0]

ResampleInput(samples) ==
  [kind |-> "resample", applied |-> FALSE, samples |-> samples,
   pcmData |-> PcmBuffer(samples), result |-> <<>>]

PcmToMuLawSample ==
  /\ probe.kind = "pcmToMuLawSample" /\ ~probe.applied
  /\ probe' = [probe EXCEPT !.applied = TRUE, !.result = pcmToMuLawSample(probe.pcm)]
  /\ UNCHANGED <<cfgVars, netVars, cmVars, envVars, taskVars, trackerVars, conv, httpLog, wsLog>>

ResampleAndCompand ==
  /\ probe.kind = "resample" /\ ~probe.applied
  /\ probe' = [probe EXCEPT !.applied = TRUE,
                            !.result = pcmToMuLaw(resample24kTo8k(probe.pcmData))]
  /\ UNCHANGED <<cfgVars, netVars, cmVars, envVars, taskVars, trackerVars, conv, httpLog, wsLog>>

InitAudio ==
  /\ Constructed /\ keyConfigured /\ ~freeTier
  /\ \/ \E pcm \in Int16 : probe = MuLawInput(pcm)
     \/ \E n \in 0 .. MaxSamples : \E samples \in SamplesOfLen(n) :
          probe = ResampleInput(samples)

NextAudio == PcmToMuLawSample \/ ResampleAndCompand

SpecAudio == InitAudio /\ [][NextAudio]_vars

\* The standard mu-law encoder: sign and magnitude, clip, bias, the
\* exponent from the highest set bit, four bits of mantissa, all inverted.
MuLawStandard(sample) ==
  LET magnitude == IF sample < 0 THEN -sample ELSE sample
      biased == (IF magnitude > 32635 THEN 32635 ELSE magnitude) + 132
      e == CHOOSE e \in 0 .. 7 : 2 ^ (e + 7) <= biased /\ biased < 2 ^ (e + 8)
      m == (biased \div (2 ^ (e + 3))) % 16
  IN 255 - ((IF sample < 0 THEN 128 ELSE 0) + 16 * e + m)

\* The integer nearest to the mean of three samples.
RoundedMean(a, b, c) ==
  CHOOSE m \in ((a + b + c) \div 3 - 1) .. ((a + b + c) \div 3 + 1) :
    3 * m - (a + b + c) \in -1 .. 1

Resampled == probe.kind = "resample" /\ probe.applied

\* C24: n wideband samples become floor(n/3) bytes, byte i the companded
\* rounded mean of samples 3i, 3i+1, 3i+2; the bytes are a function of the
\* input.
ResampleLengthAndMean ==
  Resampled =>
    /\ Len(probe.result) = Len(probe.samples) \div 3
    /\ \A i \in 0 .. (Len(probe.result) - 1) :
         probe.result[i + 1] =
           pcmToMuLawSample(RoundedMean(probe.samples[3 * i + 1],
                                        probe.samples[3 * i + 2],
                                        probe.samples[3 * i + 3]))

\* Five samples, the first three of mean -1/3, gave the one byte 0xFF.
ResampleWitness ==
  /\ Resampled
  /\ probe.samples = <<-1, 0, 0, 32767, -32768>>
  /\ probe.result = <<255>>

MuLawApplied == probe.kind = "pcmToMuLawSample" /\ probe.applied

\* C25: pcmToMuLawSample is the standard mu-law encoder on every signed
\* 16-bit sample: 0 gives 0xFF, 32767 gives 0x80, -32768 gives 0x00, and
\* every result is a byte.
MuLawBitExact ==
  MuLawApplied =>
    /\ probe.result = MuLawStandard(probe.pcm)
    /\ probe.result \in 0 .. 255
    /\ (probe.pcm = 0 => probe.result = 255)
    /\ (probe.pcm = 32767 => probe.result = 128)
    /\ (probe.pcm = -32768 => probe.result = 0)

\* The most negative sample, whose negation leaves the 16-bit range, was
\* clipped and encoded as 0x00.
MuLawWitness == MuLawApplied /\ probe.pcm = -32768 /\ probe.result = 0

(***************************************************************************)
(* ngrok.ts: the tunnel monitor and the reconnect with backoff.            *)
(* CallService.start calls startNgrok once and CallService.shutdown calls  *)
(* stopNgrok; the behaviours begin when startNgrok has resolved.           *)
(***************************************************************************)
maxReconnectAttempts == 10
baseReconnectDelayMs == 2000

\* The delay growing by baseReconnectDelayMs per attempt.
reconnectDelayLinear(reconnectAttempts) == baseReconnectDelayMs * reconnectAttempts

\* baseReconnectDelayMs * Math.pow(2, reconnectAttempts - 1).
reconnectDelay(reconnectAttempts) == baseReconnectDelayMs * (2 ^ (reconnectAttempts - 1))

\* attemptReconnect up to its await of the backoff timer, as the next value
\* of the module state n.
attemptReconnect(n) ==
  IF n.intentionallyClosed THEN [n EXCEPT !.reconnect = "returned"]
  ELSE IF n.reconnectAttempts >= maxReconnectAttempts
  THEN [n EXCEPT !.reconnect = "gaveUp"]
  ELSE [n EXCEPT !.reconnectAttempts = @ + 1,
                 !.delay = reconnectDelay(n.reconnectAttempts + 1),
                 !.reconnect = "waiting"]

\* A tick of monitorTunnel's interval, up to the await of the health fetch.
MonitorTick ==
  /\ ngrok.monitors > 0 /\ ~ngrok.fetching
  /\ ngrok' = IF ngrok.intentionallyClosed
              THEN [ngrok EXCEPT !.monitors = @ - 1]
              ELSE IF ~ngrok.listener \/ ngrok.currentUrl = "null"
              THEN attemptReconnect([ngrok EXCEPT !.monitors = @ - 1])
              ELSE [ngrok EXCEPT !.fetching = TRUE]
  /\ UNCHANGED <<cfgVars, servers, cmVars, envVars, taskVars, trackerVars, conv, logVars>>

\* The health fetch settles: a 2xx answer, or a failure that clears the
\* interval and calls attemptReconnect.
HealthCheckSettles(ok) ==
  /\ ngrok.fetching
  /\ ngrok' = IF ok THEN [ngrok EXCEPT !.fetching = FALSE]
              ELSE attemptReconnect([ngrok EXCEPT !.fetching = FALSE, !.monitors = @ - 1])
  /\ UNCHANGED <<cfgVars, servers, cmVars, envVars, taskVars, trackerVars, conv, logVars>>

\* The backoff timer fires without the test of intentionallyClosed.
ReconnectTimerFiresUnchecked ==
  /\ ngrok.reconnect = "waiting"
  /\ ngrok' = IF ngrok.listener THEN [ngrok EXCEPT !.reconnect = "closing"]
              ELSE [ngrok EXCEPT !.reconnect = "forwarding"]
  /\ UNCHANGED <<cfgVars, servers, cmVars, envVars, taskVars, trackerVars, conv, logVars>>

\* The backoff timer fires: cancelled when intentionally closed; else the
\* await of listener.close() or, without a listener, of ngrok.forward.
ReconnectTimerFires ==
  /\ ngrok.reconnect = "waiting"
  /\ ngrok' = IF ngrok.intentionallyClosed THEN [ngrok EXCEPT !.reconnect = "cancelled"]
              ELSE IF ngrok.listener THEN [ngrok EXCEPT !.reconnect = "closing"]
              ELSE [ngrok EXCEPT !.reconnect = "forwarding"]
  /\ UNCHANGED <<cfgVars, servers, cmVars, envVars, taskVars, trackerVars, conv, logVars>>

\* listener.close() of the old listener settles (errors are ignored);
\* doStartNgrok awaits ngrok.forward.
ReconnectCloseSettles ==
  /\ ngrok.reconnect = "closing"
  /\ ngrok' = [ngrok EXCEPT !.listener = FALSE, !.reconnect = "forwarding"]
  /\ UNCHANGED <<cfgVars, servers, cmVars, envVars, taskVars, trackerVars, conv, logVars>>

\* doStartNgrok after ngrok.forward has resolved with a listener of URL
\* url: currentUrl is set, the counter reset and a monitor started.
doStartNgrok(n, url) ==
  [n EXCEPT !.listener = TRUE, !.currentUrl = url, !.reconnectAttempts = 0,
            !.monitors = @ + 1]

\* attemptReconnect after doStartNgrok has returned newUrl: the warning is
\* logged when newUrl !== currentUrl, read after doStartNgrok has set it.
reconnected(n, newUrl) ==
  [n EXCEPT !.warned = (newUrl # n.currentUrl), !.reconnect = "established"]

\* ngrok.forward settles inside attemptReconnect: a listener with a URL
\* (doStartNgrok returns and attemptReconnect goes on in the same turn of
\* the job queue), a listener without URL or a rejection (both caught,
\* attemptReconnect is called again).
ReconnectForwardSettles(result) ==
  /\ ngrok.reconnect = "forwarding"
  /\ ngrok' = CASE result \in Urls -> reconnected(doStartNgrok(ngrok, result), result)
                [] result = "noUrl" -> attemptReconnect([ngrok EXCEPT !.listener = TRUE])
                [] OTHER -> attemptReconnect(ngrok)
  /\ UNCHANGED <<cfgVars, servers, cmVars, envVars, taskVars, trackerVars, conv, logVars>>

ForwardResults == Urls \cup {"noUrl", "rejected"}

(***************************************************************************)
(* Shutdown: CallService.shutdown -> CallManager.shutdown, then stopNgrok  *)
(***************************************************************************)
\* CallService.shutdown up to its first await.  CallManager.shutdown calls
\* endCall for every active call without awaiting it (each runs up to its
\* await of speak) and closes the WebSocket server and the HTTP server;
\* then stopNgrok sets intentionallyClosed and awaits listener.close(), or
\* without a listener clears the URL and returns.
Shutdown ==
  /\ ngrok.stop = "none"
  /\ servers' = IF servers.callManager
                THEN [callManager |-> FALSE, wss |-> "closed", httpServer |-> "closed",
                      ending |-> [c \in Calls |-> IF c \in activeCalls THEN "speak"
                                                  ELSE servers.ending[c]]]
                ELSE servers
  /\ ngrok' = IF ngrok.listener
              THEN [ngrok EXCEPT !.intentionallyClosed = TRUE, !.stop = "closing"]
              ELSE [ngrok EXCEPT !.intentionallyClosed = TRUE, !.currentUrl = "null",
                                 !.stop = "done"]
  /\ UNCHANGED <<cfgVars, cmVars, envVars, taskVars, trackerVars, conv, logVars>>

\* listener.close() settles inside stopNgrok: the listener and the URL are
\* cleared, or stopNgrok rejects.
StopCloseSettles(ok) ==
  /\ ngrok.stop = "closing"
  /\ ngrok' = IF ok THEN [ngrok EXCEPT !.listener = FALSE, !.currentUrl = "null",
                                       !.stop = "done"]
              ELSE [ngrok EXCEPT !.stop = "failed"]
  /\ UNCHANGED <<cfgVars, servers, cmVars, envVars, taskVars, trackerVars, conv, logVars>>

\* An endCall started by shutdown: the goodbye and the 2 s wait are over;
\* the provider hangup is requested, or without a call-control id the call
\* is torn down at once.
ShutdownEndCallSpoke(c) ==
  /\ servers.ending[c] = "speak"
  /\ IF callState[c].callControlId # 0
     THEN /\ servers' = [servers EXCEPT !.ending[c] = "hangup"]
          /\ UNCHANGED cmVars
     ELSE /\ servers' = [servers EXCEPT !.ending[c] = "done"]
          /\ EndCallTeardown(c)
          /\ UNCHANGED currentCallId
  /\ UNCHANGED <<cfgVars, ngrok, envVars, taskVars, trackerVars, conv, logVars>>

\* The goodbye synthesis rejects; shutdown's catch logs it.
ShutdownEndCallSpeakFails(c) ==
  /\ servers.ending[c] = "speak"
  /\ servers' = [servers EXCEPT !.ending[c] = "error"]
  /\ UNCHANGED <<cfgVars, ngrok, cmVars, envVars, taskVars, trackerVars, conv, logVars>>

\* phone.hangup settles: the teardown of endCall, or a rejection that
\* shutdown's catch logs.
ShutdownEndCallHangupSettles(c, ok) ==
  /\ servers.ending[c] = "hangup"
  /\ IF ok
     THEN /\ servers' = [servers EXCEPT !.ending[c] = "done"]
          /\ EndCallTeardown(c)
          /\ prov' = [prov EXCEPT ![c] = "hungup"]
          /\ UNCHANGED <<currentCallId, streamUrl>>
     ELSE /\ servers' = [servers EXCEPT !.ending[c] = "error"]
          /\ UNCHANGED <<cmVars, envVars>>
  /\ UNCHANGED <<cfgVars, ngrok, taskVars, trackerVars, conv, logVars>>

\* The tunnel alone: the monitor, the reconnect and the shutdown of a
\* service without calls.
NextNgrok ==
  \/ MonitorTick
  \/ \E ok \in BOOLEAN : HealthCheckSettles(ok)
  \/ ReconnectTimerFires
  \/ ReconnectCloseSettles
  \/ \E result \in ForwardResults : ReconnectForwardSettles(result)
  \/ Shutdown
  \/ \E ok \in BOOLEAN : StopCloseSettles(ok)

SpecNgrok == InitService /\ [][NextNgrok]_vars

\* Timers fire and awaited promises settle.
FairNgrok ==
  /\ WF_vars(ReconnectTimerFires)
  /\ WF_vars(ReconnectCloseSettles)
  /\ WF_vars(\E result \in ForwardResults : ReconnectForwardSettles(result))

SpecNgrokFair == InitService /\ [][NextNgrok]_vars /\ FairNgrok

\* An event escalated while the call service holds its call manager.
processEventWhileStarted(t, tg) == servers.callManager /\ processEvent(t, tg)

\* Escalation calls that wait for their media connection, and the shutdown.
NextShutdown ==
  \/ \E t \in Tasks, tg \in Targets : processEventWhileStarted(t, tg)
  \/ \E t \in Tasks : PhoneInitiateCallReturns(t)
  \/ \E t \in Tasks : PhoneInitiateCallFails(t)
  \/ \E t \in Tasks : WaitForConnectionTimeout(t)
  \/ Shutdown
  \/ \E ok \in BOOLEAN : StopCloseSettles(ok)
  \/ \E c \in Calls : ShutdownEndCallSpoke(c)
  \/ \E c \in Calls : ShutdownEndCallSpeakFails(c)
  \/ \E c \in Calls, ok \in BOOLEAN : ShutdownEndCallHangupSettles(c, ok)

SpecShutdown == InitService /\ [][NextShutdown]_vars

(***************************************************************************)
(* Properties of the tunnel and of the shutdown                            *)
(***************************************************************************)
Reconnecting == ngrok.reconnect \in {"waiting", "closing", "forwarding"}

ReconnectEnded == ngrok.reconnect \in {"established", "gaveUp", "cancelled", "returned"}

\* A step that begins an attempt: the counter grows by one, never beyond
\* 10, and the delay is the base for the first attempt and twice the delay
\* of the attempt before for the others; a step that establishes the tunnel
\* resets the counter.
BackoffStep ==
  /\ (ngrok.reconnect # "waiting" /\ ngrok'.reconnect = "waiting") =>
       /\ ngrok'.reconnectAttempts = ngrok.reconnectAttempts + 1
       /\ ngrok'.reconnectAttempts <= 10
       /\ ngrok'.delay = IF ngrok'.reconnectAttempts = 1 THEN 2000 ELSE 2 * ngrok.delay
  /\ (ngrok.reconnect # "established" /\ ngrok'.reconnect = "established") =>
       ngrok'.reconnectAttempts = 0
  /\ (ngrok.reconnect # "gaveUp" /\ ngrok'.reconnect = "gaveUp") =>
       ngrok.reconnectAttempts = 10

AbandonedStep ==
  ((ngrok.reconnect = "waiting" /\ ngrok.intentionallyClosed) \/ ngrok.reconnect = "cancelled") =>
    /\ ngrok'.reconnect \in {ngrok.reconnect, "cancelled"}
    /\ ngrok'.listener => ngrok.listener
    /\ ngrok'.monitors <= ngrok.monitors
    /\ ngrok'.reconnectAttempts = ngrok.reconnectAttempts

\* C27: stopNgrok during the backoff wait abandons the attempt: no tunnel
\* is opened, no monitor started, no further attempt scheduled.
StopAbandonsReconnect == [][AbandonedStep]_vars

\* An attempt that waited its backoff while stopNgrok ran was cancelled.
StopAbandonsWitness ==
  /\ ngrok.reconnect = "cancelled" /\ ngrok.intentionallyClosed
  /\ ngrok.reconnectAttempts = 3 /\ ngrok.monitors = 0

\* C28: no listening socket is closed while an endCall started by shutdown
\* is in progress.
ShutdownDrainsFirst ==
  \A c \in Calls :
    servers.ending[c] \in {"speak", "hangup"} =>
      servers.wss = "listening" /\ servers.httpServer = "listening"

(***************************************************************************)
(* Properties of the media URL and of the default escalation               *)
(***************************************************************************)
\* C29: whenever the call-answered webhook arrives among the steps of
\* initiateCall, the media URL given to startStreaming for a call that is
\* still active carries the token of that call.
StreamUrlCarriesToken ==
  \A c \in Calls :
    (streamUrl[c].set /\ c \in activeCalls) =>
      streamUrl[c].token = callState[c].wsToken

\* C30: evaluate escalates without skipNotification only when a
\* notification was sent and its timeout has elapsed in full.
EscalatesOnlyAfterTimeout ==
  (Evaluated /\ probe.result.shouldEscalate /\ ~probe.result.skipNotification) =>
    /\ probe.context.notificationSentAt # 0
    /\ DateNow - probe.context.notificationSentAt >=
         probe.this.config.triggers.notificationTimeoutSeconds * 1000

(***************************************************************************)
(* Properties of the judge's decision                                      *)
(***************************************************************************)
\* C31: a reply of the judge with a parseable structured decision escalates
\* exactly when its shouldCall is true; when structured parsing fails, with
\* no JSON object in the reply or with invalid JSON, the reply escalates
\* exactly when it holds 'yes', 'call' or 'true'.
JudgeDecision ==
  (Evaluated /\ probe.result.judged /\ ~probe.judge.rejects /\ probe.judge.response) =>
    probe.result.shouldEscalate =
      IF probe.judge.braces /\ probe.judge.parses
      THEN probe.judge.shouldCall
      ELSE probe.judge.keyword

\* C40: with the judge enabled in the configuration and no provider, an
\* event that passes the vetoes and matches no always-call pattern is not
\* escalated.
MissingJudgeDeclines ==
  (Evaluated /\ ~Vetoed(probe) /\ ~probe.context.matchesAlwaysCall
     /\ probe.this.config.triggers.useLlmForEscalation /\ ~probe.this.llmProvider)
  => ~probe.result.shouldEscalate

(***************************************************************************)
(* CallManager.listen and waitForHangup: the turns of one call and the     *)
(* hangup polls (setInterval of 100 ms) they create.                       *)
(***************************************************************************)
MaxTurns == 5

\* A connected call before its first listen.  current: the poll of the
\* listen in progress is scheduled; stale: the scheduled polls of listens
\* that have returned or thrown.
ListenInput ==
  [kind |-> "listen", listening |-> FALSE, hungUp |-> FALSE, turns |-> 0,
   current |-> FALSE, stale |-> 0, last |-> "none"]

\* listen up to its await of Promise.race: waitForTranscript is started and
\* waitForHangup schedules its poll.
TurnListenBegins ==
  /\ probe.kind = "listen" /\ ~probe.listening
  /\ probe.last \in {"none", "transcript"} /\ probe.turns < MaxTurns
  /\ probe' = [probe EXCEPT !.listening = TRUE, !.current = TRUE]
  /\ UNCHANGED <<cfgVars, netVars, cmVars, envVars, taskVars, trackerVars, conv, httpLog, wsLog>>

\* waitForTranscript resolves first: listen returns the transcript, or
\* throws when the call is hung up by then; the poll stays scheduled.
TurnTranscriptWins ==
  /\ probe.kind = "listen" /\ probe.listening
  /\ probe' = [probe EXCEPT !.listening = FALSE, !.current = FALSE,
                            !.stale = @ + (IF probe.current THEN 1 ELSE 0),
                            !.turns = @ + 1,
                            !.last = IF probe.hungUp THEN "hungup" ELSE "transcript"]
  /\ UNCHANGED <<cfgVars, netVars, cmVars, envVars, taskVars, trackerVars, conv, httpLog, wsLog>>

\* waitForTranscript rejects after transcriptTimeoutMs: listen throws; the
\* poll stays scheduled until its own timeout one second later.
TurnTranscriptTimesOut ==
  /\ probe.kind = "listen" /\ probe.listening
  /\ probe' = [probe EXCEPT !.listening = FALSE, !.current = FALSE,
                            !.stale = @ + (IF probe.current THEN 1 ELSE 0),
                            !.turns = @ + 1, !.last = "timeout"]
  /\ UNCHANGED <<cfgVars, netVars, cmVars, envVars, taskVars, trackerVars, conv, httpLog, wsLog>>

\* The provider reports the hangup or the media socket closes.
TurnCallHungUp ==
  /\ probe.kind = "listen" /\ ~probe.hungUp
  /\ probe' = [probe EXCEPT !.hungUp = TRUE]
  /\ UNCHANGED <<cfgVars, netVars, cmVars, envVars, taskVars, trackerVars, conv, httpLog, wsLog>>

\* The poll of the listen in progress ticks and sees hungUp: it clears
\* itself and rejects, and listen throws.
TurnPollSeesHangup ==
  /\ probe.kind = "listen" /\ probe.listening /\ probe.current /\ probe.hungUp
  /\ probe' = [probe EXCEPT !.listening = FALSE, !.current = FALSE,
                            !.turns = @ + 1, !.last = "hungup"]
  /\ UNCHANGED <<cfgVars, netVars, cmVars, envVars, taskVars, trackerVars, conv, httpLog, wsLog>>

\* A poll of a finished listen ticks and sees hungUp, or its timeout of
\* transcriptTimeoutMs + 1000 fires: the interval is cleared.
TurnStalePollCleared(byHangup) ==
  /\ probe.kind = "listen" /\ probe.stale > 0
  /\ byHangup => probe.hungUp
  /\ probe' = [probe EXCEPT !.stale = @ - 1]
  /\ UNCHANGED <<cfgVars, netVars, cmVars, envVars, taskVars, trackerVars, conv, httpLog, wsLog>>

InitListen == Constructed /\ keyConfigured /\ ~freeTier /\ probe = ListenInput

NextListen ==
  \/ TurnListenBegins
  \/ TurnTranscriptWins
  \/ TurnTranscriptTimesOut
  \/ TurnCallHungUp
  \/ TurnPollSeesHangup
  \/ \E byHangup \in BOOLEAN : TurnStalePollCleared(byHangup)

SpecListen == InitListen /\ [][NextListen]_vars

\* C32: once listen has returned or thrown, no hangup poll created by it is
\* still scheduled.
ListenDisposesPoll == probe.kind = "listen" => probe.stale = 0

(***************************************************************************)
(* Further properties of the tunnel                                        *)
(***************************************************************************)
\* A step that establishes a tunnel in the place of one with a URL logs
\* the warning exactly when the URL has changed.
UrlChangeStep ==
  (ngrok.reconnect = "forwarding" /\ ngrok'.reconnect = "established"
     /\ ngrok.currentUrl \in Urls) =>
    (ngrok'.warned <=> ngrok'.currentUrl # ngrok.currentUrl)

\* C33: a reconnect that establishes a tunnel with another public URL logs
\* the URL-changed warning, and one with the same URL does not.
UrlChangeWarned == [][UrlChangeStep]_vars

\* C39: once stopNgrok has completed no listener is held, whatever health
\* probe or reconnect attempt was in flight.
StoppedStaysDown == ngrok.stop = "done" => ~ngrok.listener

(***************************************************************************)
(* Properties of the call indexes and of the calls per terminal target     *)
(***************************************************************************)
\* C34: every entry of wsTokenToCallId and of callControlIdToCallId refers
\* to a call that is in activeCalls.
IndexEntriesLive ==
  /\ \A token \in DOMAIN wsTokenToCallId : wsTokenToCallId[token] \in activeCalls
  /\ \A ccid \in DOMAIN callControlIdToCallId : callControlIdToCallId[ccid] \in activeCalls

\* The provider holds the call that task t originated for an escalation.
CallInProgress(t) ==
  kind[t] = "escalation" /\ callOf[t] # 0 /\ prov[callOf[t]] \in {"dialing", "answered"}

\* C35: of two events for one terminal target processed concurrently, at
\* most one has a phone call in progress.
OneCallPerTarget ==
  \A t, u \in Tasks :
    (t # u /\ getSessionKey(target[t]) = getSessionKey(target[u])) =>
      ~(CallInProgress(t) /\ CallInProgress(u))

\* C36: when handleCall has finished for an event, having returned or
\* thrown, the SessionTracker holds no mapping for its call.
FinishedCallUnregistered ==
  \A t \in Tasks :
    (kind[t] = "escalation" /\ pc[t] = "done" /\ callOf[t] # 0) =>
      callOf[t] \notin DOMAIN callToSession

(***************************************************************************)
(* Speaking a synthesized text on the media stream: speakStreaming feeds   *)
(* the synthesizer's chunks through the resampler and the compander as     *)
(* they arrive; sendAudio converts a whole buffer at once.                 *)
(***************************************************************************)
OUTPUT_CHUNK_SIZE == 160
SAMPLES_PER_RESAMPLE == 6
JITTER_BUFFER_SIZE == 800
MaxChunks == 5

\* The sizes in bytes of the chunks the synthesizer's stream yields, and the
\* samples it synthesizes, repeated with a period that no resampling unit
\* divides.
ChunkSizes == {1, 5, 6, 1205}
StreamSamples == <<0, 1000, -1, 32767, -32768, 5, -300>>

\* The byte at offset p of the synthesized PCM audio.
StreamByte(p) ==
  writeInt16LE(StreamSamples[((p \div 2) % Len(StreamSamples)) + 1])[(p % 2) + 1]

\* The chunk of n bytes the stream yields after it has yielded offset bytes.
StreamChunk(offset, n) == [k \in 1 .. n |-> StreamByte(offset + k - 1)]

\* CallManager.sendMediaChunk: the payload goes out on an open socket and is
\* dropped otherwise.
sendMediaChunk(s, audioData) ==
  IF s.open THEN Append(s.sent, audioData) ELSE s.sent

\* pendingPcm.subarray(bytesToProcess) with nothing carried over.
pendingAfterDropped(pendingPcm, bytesToProcess) == <<>>

\* pendingPcm.subarray(bytesToProcess): the bytes after the complete units.
pendingAfter(pendingPcm, bytesToProcess) ==
  SubSeq(pendingPcm, bytesToProcess + 1, Len(pendingPcm))

\* drainBuffer of speakStreaming: full output chunks leave pendingMuLaw.
RECURSIVE drainBuffer(_)
drainBuffer(s) ==
  IF Len(s.pendingMuLaw) >= OUTPUT_CHUNK_SIZE
  THEN drainBuffer([s EXCEPT
         !.sent = sendMediaChunk(s, SubSeq(s.pendingMuLaw, 1, OUTPUT_CHUNK_SIZE)),
         !.pendingMuLaw = SubSeq(s.pendingMuLaw, OUTPUT_CHUNK_SIZE + 1, Len(s.pendingMuLaw))])
  ELSE s

\* One iteration of speakStreaming's loop over the synthesizer's stream.
streamChunk(s, chunk) ==
  LET pendingPcm == s.pendingPcm \o chunk
      completeUnits == Len(pendingPcm) \div SAMPLES_PER_RESAMPLE
      bytesToProcess == completeUnits * SAMPLES_PER_RESAMPLE
      toProcess == SubSeq(pendingPcm, 1, bytesToProcess)
      resampled == resample24kTo8k(toProcess)
      muLaw == pcmToMuLaw(resampled)
      pendingMuLaw == s.pendingMuLaw \o muLaw
      processed == [s EXCEPT !.pendingPcm = pendingAfter(pendingPcm, bytesToProcess),
                             !.pendingMuLaw = pendingMuLaw]
  IN IF completeUnits > 0
     THEN IF ~s.playbackStarted /\ Len(pendingMuLaw) < JITTER_BUFFER_SIZE
          THEN processed
          ELSE drainBuffer([processed EXCEPT !.playbackStarted = TRUE])
     ELSE [s EXCEPT !.pendingPcm = pendingPcm]

\* The end of speakStreaming: the last drain and the partial chunk.
streamEnd(s) ==
  LET drained == drainBuffer(s)
  IN IF Len(drained.pendingMuLaw) > 0
     THEN [drained EXCEPT !.sent = sendMediaChunk(drained, drained.pendingMuLaw),
                          !.pendingMuLaw = <<>>]
     ELSE drained

\* CallManager.sendAudio: the payloads sent for a whole PCM buffer.
sendAudio(s, pcmData) ==
  LET muLawData == pcmToMuLaw(resample24kTo8k(pcmData))
      length == Len(muLawData)
      count == (length + OUTPUT_CHUNK_SIZE - 1) \div OUTPUT_CHUNK_SIZE
      upTo(j) == IF j * OUTPUT_CHUNK_SIZE < length THEN j * OUTPUT_CHUNK_SIZE ELSE length
  IN IF s.open
     THEN [j \in 1 .. count |-> SubSeq(muLawData, (j - 1) * OUTPUT_CHUNK_SIZE + 1, upTo(j))]
     ELSE <<>>

\* A text about to be spoken on a call whose socket is open or closed:
\* nothing is pending and nothing has been sent.
SpeakInput(open) ==
  [kind |-> "speak", open |-> open, pcm |-> <<>>, chunks |-> 0, ended |-> FALSE,
   pendingPcm |-> <<>>, pendingMuLaw |-> <<>>, playbackStarted |-> FALSE,
   sent |-> <<>>, whole |-> FALSE, sentWhole |-> <<>>]

\* The synthesizer's stream yields its next n bytes and speakStreaming
\* processes them.
StreamYields(n) ==
  /\ probe.kind = "speak" /\ ~probe.ended /\ probe.chunks < MaxChunks
  /\ LET chunk == StreamChunk(Len(probe.pcm), n)
     IN probe' = [streamChunk(probe, chunk) EXCEPT !.pcm = probe.pcm \o chunk,
                                                   !.chunks = probe.chunks + 1]
  /\ UNCHANGED <<cfgVars, netVars, cmVars, envVars, taskVars, trackerVars, conv, httpLog, wsLog>>

\* The stream ends and speakStreaming sends what is left.
StreamEnds ==
  /\ probe.kind = "speak" /\ ~probe.ended
  /\ probe' = [streamEnd(probe) EXCEPT !.ended = TRUE]
  /\ UNCHANGED <<cfgVars, netVars, cmVars, envVars, taskVars, trackerVars, conv, httpLog, wsLog>>

\* The same audio, synthesized as one buffer, is spoken by sendAudio.
SendAudio ==
  /\ probe.kind = "speak" /\ probe.ended /\ ~probe.whole
  /\ probe' = [probe EXCEPT !.whole = TRUE, !.sentWhole = sendAudio(probe, probe.pcm)]
  /\ UNCHANGED <<cfgVars, netVars, cmVars, envVars, taskVars, trackerVars, conv, httpLog, wsLog>>

InitSpeak ==
  /\ Constructed /\ keyConfigured /\ ~freeTier
  /\ \E open \in BOOLEAN : probe = SpeakInput(open)

NextSpeak ==
  \/ \E n \in ChunkSizes : StreamYields(n)
  \/ StreamEnds
  \/ SendAudio

SpecSpeak == InitSpeak /\ [][NextSpeak]_vars

\* The bytes of a sequence of media payloads, in the order sent.
RECURSIVE PayloadBytes(_)
PayloadBytes(payloads) ==
  IF Len(payloads) = 0 THEN <<>>
  ELSE PayloadBytes(SubSeq(payloads, 1, Len(payloads) - 1)) \o payloads[Len(payloads)]

\* Both ways of speaking the audio have run.
SpokenBothWays == probe.kind = "speak" /\ probe.ended /\ probe.whole

\* C38: however the synthesizer splits the PCM audio into chunks, the
\* payloads speakStreaming sends carry, in order, exactly the bytes that
\* sendAudio sends for the whole buffer, and each full payload is one
\* output chunk.
StreamingEqualsOneShot ==
  SpokenBothWays =>
    /\ PayloadBytes(probe.sent) = PayloadBytes(probe.sentWhole)
    /\ probe.open => PayloadBytes(probe.sent) = pcmToMuLaw(resample24kTo8k(probe.pcm))

\* The audio arrived in several chunks that split resampling units, playback
\* started from the jitter buffer, and more than one payload was sent.
StreamingWitness ==
  /\ SpokenBothWays /\ probe.open /\ probe.chunks > 1
  /\ Len(probe.pcm) % SAMPLES_PER_RESAMPLE # 0
  /\ probe.playbackStarted /\ Len(probe.sent) > 1

(***************************************************************************)
(* The rate limits over time: events of different terminal targets are     *)
(* evaluated against the call service's lastCallAt and callHistory, which  *)
(* CallService.initiateCall updates when the call manager's initiateCall   *)
(* has resolved.  Timestamps are kept relative to the current instant,     *)
(* DateNow: the passing of time moves every recorded timestamp back.       *)
(***************************************************************************)
MaxRateEvents == 3
MaxTicks == 3

RateEvents == 1 .. MaxRateEvents
TickMinutes == {1, 5, 60}

\* 60 * 60 * 1000 of pruneCallHistory.
OneHourMs == 60 * 60 * 1000

\* CallService.pruneCallHistory.
pruneCallHistory(callHistory) ==
  SelectSeq(callHistory, LAMBDA t : t > DateNow - OneHourMs)

\* The context processEvent hands the evaluator: getLastCallAt() ?? undefined
\* and getCallCountLastHour(), which prunes before it counts.
rateContext(service) ==
  [previousCallAt |-> service.lastCallAt,
   callCountLastHour |-> Len(pruneCallHistory(service.callHistory))]

\* The call service before any call: lastCallAt null (0), no history, the
\* events not yet received, no time passed and no call originated.
RateInput ==
  [kind |-> "rate", lastCallAt |-> 0, callHistory |-> <<>>,
   stage |-> [e \in RateEvents |-> "none"], ticks |-> 0, originated |-> <<>>]

\* processEvent for an event the evaluator escalates unless a rate limit
\* refuses: the limits are checked against the recorded calls, and handleCall
\* asks the provider to originate the call.
RateProcessEvent(e) ==
  /\ probe.kind = "rate" /\ probe.stage[e] = "none"
  /\ LET config == [rateLimiting |-> RateLimiting(minCallIntervalSeconds, maxCallsPerHour)]
         allowed == checkRateLimits(config, rateContext(probe)).allowed
     IN probe' = [probe EXCEPT !.callHistory = pruneCallHistory(probe.callHistory),
                               !.stage[e] = IF allowed THEN "originating" ELSE "declined"]
  /\ UNCHANGED <<cfgVars, netVars, cmVars, envVars, taskVars, trackerVars, conv, httpLog, wsLog>>

\* The provider answers the request: the phone call is originated, or the
\* request is rejected and handleCall throws.
RateOriginateSettles(e, ok) ==
  /\ probe.kind = "rate" /\ probe.stage[e] = "originating"
  /\ probe' = [probe EXCEPT !.stage[e] = IF ok THEN "calling" ELSE "failed",
                            !.originated = IF ok THEN Append(@, DateNow) ELSE @]
  /\ UNCHANGED <<cfgVars, netVars, cmVars, envVars, taskVars, trackerVars, conv, httpLog, wsLog>>

\* The call manager's initiateCall settles: resolved, the call is recorded in
\* lastCallAt and callHistory; rejected (connection timeout, hangup), it is
\* not.
RateCallSettles(e, ok) ==
  /\ probe.kind = "rate" /\ probe.stage[e] = "calling"
  /\ probe' = IF ok
              THEN [probe EXCEPT !.stage[e] = "done",
                                 !.lastCallAt = DateNow,
                                 !.callHistory = pruneCallHistory(Append(@, DateNow))]
              ELSE [probe EXCEPT !.stage[e] = "failed"]
  /\ UNCHANGED <<cfgVars, netVars, cmVars, envVars, taskVars, trackerVars, conv, httpLog, wsLog>>

\* Time passes: every timestamp is m minutes further in the past.  The
\* number of such steps is bounded.
RateTick(m) ==
  /\ probe.kind = "rate" /\ probe.ticks < MaxTicks
  /\ LET earlier(t) == t - m * 60 * 1000
     IN probe' = [probe EXCEPT
          !.ticks = @ + 1,
          !.lastCallAt = IF @ = 0 THEN 0 ELSE earlier(@),
          !.callHistory = [k \in 1 .. Len(@) |-> earlier(@[k])],
          !.originated = [k \in 1 .. Len(@) |-> earlier(@[k])]]
  /\ UNCHANGED <<cfgVars, netVars, cmVars, envVars, taskVars, trackerVars, conv, httpLog, wsLog>>

InitRate ==
  /\ Constructed /\ keyConfigured /\ ~freeTier
  /\ probe = RateInput

NextRate ==
  \/ \E e \in RateEvents : RateProcessEvent(e)
  \/ \E e \in RateEvents, ok \in BOOLEAN : RateOriginateSettles(e, ok)
  \/ \E e \in RateEvents, ok \in BOOLEAN : RateCallSettles(e, ok)
  \/ \E m \in TickMinutes : RateTick(m)

SpecRate == InitRate /\ [][NextRate]_vars

\* C37: no two originated calls are closer together than
\* minCallIntervalSeconds, and no more than maxCallsPerHour calls are
\* originated within any 60 minutes.
RateLimitsHonoured ==
  probe.kind = "rate" =>
    LET calls == probe.originated
    IN /\ \A i, j \in 1 .. Len(calls) :
            i < j => calls[j] - calls[i] >= minCallIntervalSeconds * 1000
       /\ \A i \in 1 .. Len(calls) :
            Cardinality({ j \in 1 .. Len(calls) :
                            calls[j] >= calls[i] /\ calls[j] - calls[i] < OneHourMs })
              <= maxCallsPerHour

====
